---- MODULE Spec2Model ----
(***************************************************************************)
(* Room / session state machine of the blind-story party game: the game    *)
(* engine (rotation variant, src/lib/profanity-filter.ts), the Redis room  *)
(* store (src/unnamed/part_010) and the socket adapter                     *)
(* (src/lib/socket-handler.ts).                                            *)
(*                                                                         *)
(* Spec runs every socket handler to completion (one action per handler).  *)
(* SpecRace splits submit-answer at its awaits (getRoom / saveRoom), so    *)
(* that two handlers on one room interleave.                               *)
(*                                                                         *)
(* Spec has one room code, so one room at a time; each behaviour is bounded*)
(* by a budget chosen in Init.                                             *)
(*                                                                         *)
(* Further specifications, each defined where it is used: SpecLive (Spec   *)
(* with a fair grace timer), SpecCreate and SpecCodes (create-room with its*)
(* awaits and its code loop), SpecValidate and SpecReveal (the validators  *)
(* and generateReveal as functions), SpecCycle (class GameState of         *)
(* src/unnamed/part_008), SpecRejoin (rejoin-room against the grace timer, *)
(* with their awaits), SpecRooms (two rooms) and SpecFair (a room of up to *)
(* MaxFairPlayers players over several rounds).                            *)
(*                                                                         *)
(* Left out: settings.language and settings.timerSeconds (stored, never    *)
(* read by the engine), createdAt, the Redis expiry of a room that is not  *)
(* written for four hours, and the events sent to the clients (the         *)
(* scheduled tasks that send them later are in `timers`).                  *)
(***************************************************************************)
EXTENDS Integers, Sequences, FiniteSets, TLC

VARIABLES
    store,              \* Redis: room code -> stored room snapshot
    socketRooms,        \* socket id -> room code (socket-handler.ts:18)
    pendingDisconnects, \* keys (room code, player id) with a grace timer
    timers,             \* grace timers that are scheduled and not cleared
    connected,          \* socket ids of the live connections
    nextSock,           \* the id the next connection gets
    last,               \* outcome of the last handler that changed anything
    budget,             \* what is left of the bounds of the model
    inflight            \* SpecRace: submit-answer handlers between awaits

vars == <<store, socketRooms, pendingDisconnects, timers, connected, nextSock,
          last, budget, inflight>>

----------------------------------------------------------------------------
(* Bounds of the model *)

\* connections ever opened (socket ids are 1..MaxSockets, handed out in order)
MaxSockets == 5
\* rounds a room may start before start-game / new-round are disabled
MaxRound == 2
\* the largest settings.maxPlayers a client sends
MaxMaxPlayers == 5
\* submit-answer requests in one behaviour of SpecRace that yield between
\* reading the room and saving it
MaxInflight == 2
\* departures in one behaviour: disconnects, leave-room and kick-player
MaxDepartures == 1
\* requests in one behaviour that are out of the ordinary: create-room, join-room
\* and rejoin-room from a connection that has sent a request before, and
\* rejoin-room requests that name a player who has not disconnected
MaxIrregular == 1
\* outcomes of the random shuffle that Spec explores for each group size
ShuffleBound == 2
MaxAttempts == 11

(* Program constants *)

\* startGame: room.players.length < 4
MinPlayers == 4
\* assignQuestionsWithRotation: groups of 4 players
GroupSize == 4
\* validateAnswer: text.length > 100
MaxAnswerLength == 100

Codes == {"A"}
\* what a client types as room code: the code in lower case
CodeInputs == {"a"}
NameList == <<"Amy", "Bo", "Cy", "Dee", "Eve", "Flo", "Gus">>

QUESTIONS == <<"who", "withWhom", "where", "how">>
QuestionSet == {QUESTIONS[i] : i \in 1..Len(QUESTIONS)}
NoQuestion == "undefined"
Null == [null |-> TRUE]
NoCode == "undefined"

\* String.prototype.toUpperCase on the room codes a client types
toUpperCase(c) == IF c = "a" THEN "A" ELSE IF c = "b" THEN "B" ELSE c

----------------------------------------------------------------------------
(* Answer texts are sequences of characters *)

LongText == [i \in 1..(MaxAnswerLength + 1) |-> "x"]
Texts == {<<>>, <<" ">>, <<"h", "i">>, <<" ", "h", "i", " ">>, LongText}

RECURSIVE trimStart(_)
trimStart(t) ==
    IF t = <<>> THEN <<>>
    ELSE IF Head(t) = " " THEN trimStart(Tail(t)) ELSE t

RECURSIVE trimEnd(_)
trimEnd(t) ==
    IF t = <<>> THEN <<>>
    ELSE IF t[Len(t)] = " " THEN trimEnd(SubSeq(t, 1, Len(t) - 1)) ELSE t

trim(t) == trimEnd(trimStart(t))

\* validateAnswer with the length test before the empty test
validateAnswer_lengthFirst(text) ==
    IF Len(text) > MaxAnswerLength
    THEN [isValid |-> FALSE, cleanedText |-> text,
          error |-> "Answer is too long (max 100 characters)"]
    ELSE IF text = <<>> \/ Len(trim(text)) = 0
    THEN [isValid |-> FALSE, cleanedText |-> <<>>,
          error |-> "Answer cannot be empty"]
    ELSE [isValid |-> TRUE, cleanedText |-> trim(text), error |-> "undefined"]

validateAnswer(text) ==
    IF text = <<>> \/ Len(trim(text)) = 0
    THEN [isValid |-> FALSE, cleanedText |-> <<>>,
          error |-> "Answer cannot be empty"]
    ELSE IF Len(text) > MaxAnswerLength
    THEN [isValid |-> FALSE, cleanedText |-> text,
          error |-> "Answer is too long (max 100 characters)"]
    ELSE [isValid |-> TRUE, cleanedText |-> trim(text), error |-> "undefined"]

----------------------------------------------------------------------------
(* Room store (Redis, JSON snapshots) *)

getRoom(st, roomCode) == IF roomCode \in DOMAIN st THEN st[roomCode] ELSE Null

saveRoom(st, room) ==
    [c \in DOMAIN st \cup {room.code} |-> IF c = room.code THEN room ELSE st[c]]

deleteRoom(st, roomCode) == [c \in DOMAIN st \ {roomCode} |-> st[c]]

roomExists(st, roomCode) == roomCode \in DOMAIN st

----------------------------------------------------------------------------
(* Players *)

NewPlayer(id, name, isHost) ==
    [id |-> id, name |-> name, isHost |-> isHost, isReady |-> FALSE,
     assignedQuestion |-> NoQuestion, hasAnswered |-> FALSE,
     previousQuestion |-> NoQuestion]

\* Array.prototype.find(p => p.id === playerId): index of the first match, 0 if none
FindPlayer(players, playerId) ==
    IF \E i \in 1..Len(players) : players[i].id = playerId
    THEN CHOOSE i \in 1..Len(players) :
            /\ players[i].id = playerId
            /\ \A j \in 1..(i - 1) : players[j].id # playerId
    ELSE 0

NoAnswers == [q \in {} |-> Null]

----------------------------------------------------------------------------
(* Game engine *)

createRoom(st, roomCode, hostId, hostName, settings) ==
    LET room == [code |-> roomCode,
                 hostId |-> hostId,
                 players |-> <<NewPlayer(hostId, hostName, TRUE)>>,
                 settings |-> settings,
                 gameState |-> [phase |-> "lobby", currentRound |-> 0,
                                answers |-> NoAnswers, currentTurnIndex |-> 0,
                                questionOrder |-> <<>>, rotationIndex |-> 0]]
    IN [ret |-> room, store |-> saveRoom(st, room)]

\* joinRoom without the capacity check of lines 97-99
JoinError_noCapacity(room, playerName) ==
    IF room = Null THEN "Room not found"
    ELSE IF room.gameState.phase # "lobby" THEN "Game already in progress"
    ELSE IF \E i \in 1..Len(room.players) : room.players[i].name = playerName
    THEN "Name already taken"
    ELSE "undefined"

\* joinRoom without the name check of lines 102-105
JoinError_noNameCheck(room, playerName) ==
    IF room = Null THEN "Room not found"
    ELSE IF room.gameState.phase # "lobby" THEN "Game already in progress"
    ELSE IF Len(room.players) >= room.settings.maxPlayers THEN "Room is full"
    ELSE "undefined"

\* joinRoom with the name check moved before the capacity check
JoinError_nameFirst(room, playerName) ==
    IF room = Null THEN "Room not found"
    ELSE IF room.gameState.phase # "lobby" THEN "Game already in progress"
    ELSE IF \E i \in 1..Len(room.players) : room.players[i].name = playerName
    THEN "Name already taken"
    ELSE IF Len(room.players) >= room.settings.maxPlayers THEN "Room is full"
    ELSE "undefined"

JoinError(room, playerName) ==
    IF room = Null THEN "Room not found"
    ELSE IF room.gameState.phase # "lobby" THEN "Game already in progress"
    ELSE IF Len(room.players) >= room.settings.maxPlayers THEN "Room is full"
    ELSE IF \E i \in 1..Len(room.players) : room.players[i].name = playerName
    THEN "Name already taken"
    ELSE "undefined"

joinRoom(st, roomCode, playerId, playerName) ==
    LET room == getRoom(st, roomCode)
        error == JoinError(room, playerName)
    IN IF error # "undefined"
       THEN [success |-> FALSE, room |-> Null, error |-> error, store |-> st]
       ELSE LET joined == [room EXCEPT !.players =
                              Append(@, NewPlayer(playerId, playerName, FALSE))]
            IN [success |-> TRUE, room |-> joined, error |-> "undefined",
                store |-> saveRoom(st, joined)]

\* removePlayer promoting the last remaining player instead of the first
removePlayer_promoteLast(st, roomCode, playerId) ==
    LET room == getRoom(st, roomCode)
    IN IF room = Null THEN [ret |-> Null, store |-> st]
       ELSE LET rest == SelectSeq(room.players, LAMBDA p : p.id # playerId)
            IN IF playerId = room.hostId
               THEN IF Len(rest) > 0
                    THEN LET promoted ==
                                [room EXCEPT !.players =
                                                [rest EXCEPT ![Len(rest)].isHost = TRUE],
                                             !.hostId = rest[Len(rest)].id]
                         IN [ret |-> promoted, store |-> saveRoom(st, promoted)]
                    ELSE [ret |-> Null, store |-> st]
               ELSE LET updated == [room EXCEPT !.players = rest]
                    IN [ret |-> updated, store |-> saveRoom(st, updated)]

\* removePlayer without line 137 (room.players[0].isHost = true)
removePlayer_noFlag(st, roomCode, playerId) ==
    LET room == getRoom(st, roomCode)
    IN IF room = Null THEN [ret |-> Null, store |-> st]
       ELSE LET rest == SelectSeq(room.players, LAMBDA p : p.id # playerId)
            IN IF playerId = room.hostId
               THEN IF Len(rest) > 0
                    THEN LET promoted == [room EXCEPT !.players = rest,
                                                      !.hostId = rest[1].id]
                         IN [ret |-> promoted, store |-> saveRoom(st, promoted)]
                    ELSE [ret |-> Null, store |-> st]
               ELSE LET updated == [room EXCEPT !.players = rest]
                    IN [ret |-> updated, store |-> saveRoom(st, updated)]

\* removePlayer that saves and returns the room when the host leaves it empty
removePlayer_saveEmpty(st, roomCode, playerId) ==
    LET room == getRoom(st, roomCode)
    IN IF room = Null THEN [ret |-> Null, store |-> st]
       ELSE LET rest == SelectSeq(room.players, LAMBDA p : p.id # playerId)
                updated ==
                   IF playerId = room.hostId /\ Len(rest) > 0
                   THEN [room EXCEPT !.players = [rest EXCEPT ![1].isHost = TRUE],
                                     !.hostId = rest[1].id]
                   ELSE [room EXCEPT !.players = rest]
            IN [ret |-> updated, store |-> saveRoom(st, updated)]

removePlayer(st, roomCode, playerId) ==
    LET room == getRoom(st, roomCode)
    IN IF room = Null THEN [ret |-> Null, store |-> st]
       ELSE LET rest == SelectSeq(room.players, LAMBDA p : p.id # playerId)
            IN IF playerId = room.hostId
               THEN IF Len(rest) > 0
                    THEN LET promoted ==
                                [room EXCEPT !.players =
                                                [rest EXCEPT ![1].isHost = TRUE],
                                             !.hostId = rest[1].id]
                         IN [ret |-> promoted, store |-> saveRoom(st, promoted)]
                    ELSE [ret |-> Null, store |-> st]
               ELSE LET updated == [room EXCEPT !.players = rest]
                    IN [ret |-> updated, store |-> saveRoom(st, updated)]

----------------------------------------------------------------------------
(* Question assignment *)

Min(a, b) == IF a < b THEN a ELSE b

\* assignQuestionsWithRotation reading group 0 whatever rotationIndex is
playersThisRound_firstGroup(players, rotationIndex) ==
    [i \in 1..Min(GroupSize, Len(players)) |-> players[i]]

\* the players that get questions this round: 4 starting at the group's first
playersThisRound(players, rotationIndex) ==
    LET totalPlayers == Len(players)
        numGroups == (totalPlayers + GroupSize - 1) \div GroupSize
        currentGroup == rotationIndex % numGroups
        startIndex == currentGroup * GroupSize
    IN [i \in 1..Min(GroupSize, totalPlayers) |->
            players[((startIndex + i - 1) % totalPlayers) + 1]]

\* previousAssignments.get(id): a Map keyed by player id, later entries win
previousAssignments(selected, id) ==
    LET idxs == {i \in 1..Len(selected) :
                    /\ selected[i].id = id
                    /\ selected[i].previousQuestion # NoQuestion}
    IN IF idxs = {} THEN NoQuestion
       ELSE selected[CHOOSE i \in idxs : \A j \in idxs : j <= i].previousQuestion

\* the first question of QUESTIONS not yet assigned and different from avoid
FirstQuestion(assignedQuestions, avoid) ==
    LET ok == {k \in 1..Len(QUESTIONS) :
                  /\ QUESTIONS[k] \notin assignedQuestions
                  /\ QUESTIONS[k] # avoid}
    IN IF ok = {} THEN 0 ELSE CHOOSE k \in ok : \A j \in ok : k <= j

\* the loop over shuffledPlayers; assignments is the Map player id -> question
RECURSIVE AssignLoop(_, _, _, _, _)
AssignLoop(shuffledPlayers, i, selected, assignments, assignedQuestions) ==
    IF i > Len(shuffledPlayers) \/ Cardinality(assignedQuestions) >= 4
    THEN assignments
    ELSE LET player == shuffledPlayers[i]
             prevQuestion == previousAssignments(selected, player.id)
             first == FirstQuestion(assignedQuestions, prevQuestion)
             k == IF first # 0 THEN first
                  ELSE FirstQuestion(assignedQuestions, NoQuestion)
         IN IF k = 0
            THEN AssignLoop(shuffledPlayers, i + 1, selected, assignments,
                            assignedQuestions)
            ELSE AssignLoop(shuffledPlayers, i + 1, selected,
                            (player.id :> QUESTIONS[k]) @@ assignments,
                            assignedQuestions \cup {QUESTIONS[k]})

\* "Apply assignments to ALL players"
ApplyAssignments(players, assignments) ==
    [i \in 1..Len(players) |->
        LET player == players[i]
        IN [player EXCEPT
              !.previousQuestion = player.assignedQuestion,
              !.assignedQuestion = IF player.id \in DOMAIN assignments
                                   THEN assignments[player.id]
                                   ELSE NoQuestion,
              !.hasAnswered = FALSE]]

\* the outcomes of [...playersThisRound].sort(() => Math.random() - 0.5)
Shuffles(players) == Permutations(1..Min(GroupSize, Len(players)))

assignQuestionsWithRotation(players, rotationIndex, shuffle) ==
    LET selected == playersThisRound(players, rotationIndex)
        shuffledPlayers == [i \in 1..Len(selected) |-> selected[shuffle[i]]]
        assignments == AssignLoop(shuffledPlayers, 1, selected,
                                  [id \in {} |-> NoQuestion], {})
    IN ApplyAssignments(players, assignments)

----------------------------------------------------------------------------
(* Rounds *)

\* startGame without the player count check of lines 239-241
startGame_noMinimum(st, roomCode, shuffle) ==
    LET room == getRoom(st, roomCode)
    IN IF room = Null \/ room.gameState.phase # "lobby"
       THEN [ret |-> Null, threw |-> FALSE, store |-> st]
       ELSE LET started ==
                [room EXCEPT
                   !.players = assignQuestionsWithRotation(
                                   room.players, room.gameState.rotationIndex,
                                   shuffle),
                   !.gameState.phase = "playing",
                   !.gameState.currentRound = @ + 1,
                   !.gameState.currentTurnIndex = 0,
                   !.gameState.answers = NoAnswers,
                   !.gameState.questionOrder = QUESTIONS,
                   !.gameState.rotationIndex = @ + 1]
            IN [ret |-> started, threw |-> FALSE, store |-> saveRoom(st, started)]

startGame(st, roomCode, shuffle) ==
    LET room == getRoom(st, roomCode)
    IN IF room = Null \/ room.gameState.phase # "lobby"
       THEN [ret |-> Null, threw |-> FALSE, store |-> st]
       ELSE IF Len(room.players) < MinPlayers
       THEN [ret |-> Null, threw |-> TRUE, store |-> st]
       ELSE LET started ==
                [room EXCEPT
                   !.players = assignQuestionsWithRotation(
                                   room.players, room.gameState.rotationIndex,
                                   shuffle),
                   !.gameState.phase = "playing",
                   !.gameState.currentRound = @ + 1,
                   !.gameState.currentTurnIndex = 0,
                   !.gameState.answers = NoAnswers,
                   !.gameState.questionOrder = QUESTIONS,
                   !.gameState.rotationIndex = @ + 1]
            IN [ret |-> started, threw |-> FALSE, store |-> saveRoom(st, started)]

\* the all-answered test of line 293 satisfied by any three answers
AllAnswered_three(answers) == Cardinality(DOMAIN answers) >= 3

AllAnswered(answers) == \A k \in 1..Len(QUESTIONS) : QUESTIONS[k] \in DOMAIN answers

\* submitAnswer without the hasAnswered check of lines 276-278
SubmitError_noGuard(room, playerId, answer) ==
    IF room = Null \/ room.gameState.phase # "playing" THEN "Invalid game state"
    ELSE LET i == FindPlayer(room.players, playerId)
         IN IF i = 0 \/ room.players[i].assignedQuestion = NoQuestion
            THEN "Player not found or no question assigned"
            ELSE IF ~validateAnswer(answer).isValid
            THEN validateAnswer(answer).error
            ELSE "undefined"

SubmitError(room, playerId, answer) ==
    IF room = Null \/ room.gameState.phase # "playing" THEN "Invalid game state"
    ELSE LET i == FindPlayer(room.players, playerId)
         IN IF i = 0 \/ room.players[i].assignedQuestion = NoQuestion
            THEN "Player not found or no question assigned"
            ELSE IF room.players[i].hasAnswered THEN "Already answered"
            ELSE IF ~validateAnswer(answer).isValid
            THEN validateAnswer(answer).error
            ELSE "undefined"

\* the room after "Store answer" and the all-answered check (lines 286-298)
RecordAnswer(room, playerId, answer) ==
    LET i == FindPlayer(room.players, playerId)
        player == room.players[i]
        answers == (player.assignedQuestion :>
                       [playerId |-> player.id,
                        answer |-> validateAnswer(answer).cleanedText])
                   @@ room.gameState.answers
    IN [room EXCEPT
          !.gameState.answers = answers,
          !.players[i].hasAnswered = TRUE,
          !.gameState.phase = IF AllAnswered(answers) THEN "reveal" ELSE @]

\* submitAnswer with player.hasAnswered = true set, and the room saved, before
\* the validator is asked
submitAnswerFrom_markFirst(room, st, playerId, answer) ==
    LET error == SubmitError(room, playerId, answer)
    IN IF error # "undefined"
       THEN [success |-> FALSE, room |-> Null, error |-> error,
             shouldReveal |-> FALSE,
             store |-> IF error = validateAnswer(answer).error
                       THEN saveRoom(st,
                               [room EXCEPT
                                  !.players[FindPlayer(room.players, playerId)]
                                     .hasAnswered = TRUE])
                       ELSE st]
       ELSE LET recorded == RecordAnswer(room, playerId, answer)
            IN [success |-> TRUE, room |-> recorded, error |-> "undefined",
                shouldReveal |-> AllAnswered(recorded.gameState.answers),
                store |-> saveRoom(st, recorded)]

\* submitAnswer from line 267 on: room is what `await getRoom` returned, st is
\* the store at the time of `await saveRoom`
submitAnswerFrom(room, st, playerId, answer) ==
    LET error == SubmitError(room, playerId, answer)
    IN IF error # "undefined"
       THEN [success |-> FALSE, room |-> Null, error |-> error,
             shouldReveal |-> FALSE, store |-> st]
       ELSE LET recorded == RecordAnswer(room, playerId, answer)
            IN [success |-> TRUE, room |-> recorded, error |-> "undefined",
                shouldReveal |-> AllAnswered(recorded.gameState.answers),
                store |-> saveRoom(st, recorded)]

submitAnswer(st, roomCode, playerId, answer) ==
    submitAnswerFrom(getRoom(st, roomCode), st, playerId, answer)

\* startNewRound without line 414 (room.gameState.rotationIndex++)
startNewRound_noRotate(st, roomCode, shuffle) ==
    LET room == getRoom(st, roomCode)
    IN IF room = Null \/ room.gameState.phase # "reveal"
       THEN [ret |-> Null, store |-> st]
       ELSE LET started ==
                [room EXCEPT
                   !.players = assignQuestionsWithRotation(
                                   room.players, room.gameState.rotationIndex,
                                   shuffle),
                   !.gameState.phase = "playing",
                   !.gameState.currentRound = @ + 1,
                   !.gameState.currentTurnIndex = 0,
                   !.gameState.answers = NoAnswers]
            IN [ret |-> started, store |-> saveRoom(st, started)]

\* startNewRound without line 412 (room.gameState.answers = {})
startNewRound_keepAnswers(st, roomCode, shuffle) ==
    LET room == getRoom(st, roomCode)
    IN IF room = Null \/ room.gameState.phase # "reveal"
       THEN [ret |-> Null, store |-> st]
       ELSE LET started ==
                [room EXCEPT
                   !.players = assignQuestionsWithRotation(
                                   room.players, room.gameState.rotationIndex,
                                   shuffle),
                   !.gameState.phase = "playing",
                   !.gameState.currentRound = @ + 1,
                   !.gameState.currentTurnIndex = 0,
                   !.gameState.rotationIndex = @ + 1]
            IN [ret |-> started, store |-> saveRoom(st, started)]

\* startNewRound without the phase guard of line 404
startNewRound_anyPhase(st, roomCode, shuffle) ==
    LET room == getRoom(st, roomCode)
    IN IF room = Null
       THEN [ret |-> Null, store |-> st]
       ELSE LET started ==
                [room EXCEPT
                   !.players = assignQuestionsWithRotation(
                                   room.players, room.gameState.rotationIndex,
                                   shuffle),
                   !.gameState.phase = "playing",
                   !.gameState.currentRound = @ + 1,
                   !.gameState.currentTurnIndex = 0,
                   !.gameState.answers = NoAnswers,
                   !.gameState.rotationIndex = @ + 1]
            IN [ret |-> started, store |-> saveRoom(st, started)]

startNewRound(st, roomCode, shuffle) ==
    LET room == getRoom(st, roomCode)
    IN IF room = Null \/ room.gameState.phase # "reveal"
       THEN [ret |-> Null, store |-> st]
       ELSE LET started ==
                [room EXCEPT
                   !.players = assignQuestionsWithRotation(
                                   room.players, room.gameState.rotationIndex,
                                   shuffle),
                   !.gameState.phase = "playing",
                   !.gameState.currentRound = @ + 1,
                   !.gameState.currentTurnIndex = 0,
                   !.gameState.answers = NoAnswers,
                   !.gameState.rotationIndex = @ + 1]
            IN [ret |-> started, store |-> saveRoom(st, started)]

\* newSettings is a partial record: its domain is {} or {"maxPlayers"}
NoSettings == [k \in {} |-> 0]

\* resetToLobby without line 451 (player.hasAnswered = false)
resetToLobby_keepAnswered(st, roomCode, newSettings) ==
    LET room == getRoom(st, roomCode)
    IN IF room = Null THEN [ret |-> Null, store |-> st]
       ELSE LET reset ==
                [room EXCEPT
                   !.settings.maxPlayers =
                       IF "maxPlayers" \in DOMAIN newSettings
                       THEN newSettings["maxPlayers"] ELSE @,
                   !.gameState.phase = "lobby",
                   !.gameState.currentRound = 0,
                   !.gameState.answers = NoAnswers,
                   !.gameState.currentTurnIndex = 0,
                   !.gameState.rotationIndex = 0,
                   !.players = [i \in 1..Len(room.players) |->
                                   [room.players[i] EXCEPT
                                      !.assignedQuestion = NoQuestion,
                                      !.previousQuestion = NoQuestion,
                                      !.isReady = FALSE]]]
            IN [ret |-> reset, store |-> saveRoom(st, reset)]

resetToLobby(st, roomCode, newSettings) ==
    LET room == getRoom(st, roomCode)
    IN IF room = Null THEN [ret |-> Null, store |-> st]
       ELSE LET reset ==
                [room EXCEPT
                   !.settings.maxPlayers =
                       IF "maxPlayers" \in DOMAIN newSettings
                       THEN newSettings["maxPlayers"] ELSE @,
                   !.gameState.phase = "lobby",
                   !.gameState.currentRound = 0,
                   !.gameState.answers = NoAnswers,
                   !.gameState.currentTurnIndex = 0,
                   !.gameState.rotationIndex = 0,
                   !.players = [i \in 1..Len(room.players) |->
                                   [room.players[i] EXCEPT
                                      !.assignedQuestion = NoQuestion,
                                      !.hasAnswered = FALSE,
                                      !.previousQuestion = NoQuestion,
                                      !.isReady = FALSE]]]
            IN [ret |-> reset, store |-> saveRoom(st, reset)]

----------------------------------------------------------------------------
(* The reveal sentence (template variant of generateReveal, game-engine.ts)  *)

\* the pieces of the template of line 266, and the answers of the example
WasWith == <<" ", "w", "a", "s", " ", "w", "i", "t", "h", " ">>
At == <<" ", "a", "t", " ">>
AndTheyDidIt ==
    <<",", " ", "a", "n", "d", " ", "t", "h", "e", "y", " ", "d", "i",
      "d", " ", "i", "t", " ">>
Comma == <<",", " ">>
Stop == <<".">>
AliceText == <<"A", "l", "i", "c", "e">>
BobText == <<"B", "o", "b">>
ADragon == <<"a", " ", "d", "r", "a", "g", "o", "n">>
TheMoon == <<"t", "h", "e", " ", "m", "o", "o", "n">>
Accidentally == <<"a", "c", "c", "i", "d", "e", "n", "t", "a", "l", "l", "y">>
ExampleSentence ==
    <<"A", "l", "i", "c", "e", " ", "w", "a", "s", " ", "w", "i", "t",
      "h", " ", "a", " ", "d", "r", "a", "g", "o", "n", " ", "a", "t",
      " ", "t", "h", "e", " ", "m", "o", "o", "n", ",", " ", "a", "n",
      "d", " ", "t", "h", "e", "y", " ", "d", "i", "d", " ", "i", "t",
      " ", "a", "c", "c", "i", "d", "e", "n", "t", "a", "l", "l", "y",
      ".">>

\* generateReveal with the sentence of the refined variant for plain answers:
\* no 'and they did it'
generateReveal_noConjunction(room) ==
    LET answers == room.gameState.answers
    IN IF \E k \in 1..Len(QUESTIONS) : QUESTIONS[k] \notin DOMAIN answers
       THEN Null
       ELSE LET who == answers["who"].answer
                withWhom == answers["withWhom"].answer
                where == answers["where"].answer
                how == answers["how"].answer
            IN [who |-> who, withWhom |-> withWhom, where |-> where,
                how |-> how,
                sentence |-> who \o WasWith \o withWhom \o At
                                 \o where \o Comma \o how \o Stop]

generateReveal(room) ==
    LET answers == room.gameState.answers
    IN IF \E k \in 1..Len(QUESTIONS) : QUESTIONS[k] \notin DOMAIN answers
       THEN Null
       ELSE LET who == answers["who"].answer
                withWhom == answers["withWhom"].answer
                where == answers["where"].answer
                how == answers["how"].answer
            IN [who |-> who, withWhom |-> withWhom, where |-> where,
                how |-> how,
                sentence |-> who \o WasWith \o withWhom \o At
                                 \o where \o AndTheyDidIt \o how \o Stop]

----------------------------------------------------------------------------
(* Socket adapter: one action per handler, run to completion *)

Sockets == 1..MaxSockets

\* a handler's caller: a live connection, or a new one (it gets the next id)
Callers == connected \cup (IF nextSock <= budget.sockets THEN {nextSock} ELSE {})

\* io.on('connection'): the caller's connection is live from its first request on
Connect(s) ==
    /\ connected' = connected \cup {s}
    /\ nextSock' = IF s = nextSock THEN nextSock + 1 ELSE nextSock

\* The budgets of the model (no counterpart in the code).
Departure ==
    /\ budget.departures > 0
    /\ budget' = [budget EXCEPT !.departures = @ - 1]

Irregular ==
    /\ budget.irregular > 0
    /\ budget' = [budget EXCEPT !.irregular = @ - 1]

Request(s) == IF s \in connected THEN Irregular ELSE UNCHANGED budget

\* last: the outcome of the last handler that changed the store or the adapter.
\* A request that is refused and changes nothing leaves every variable as it is.
\* by is the caller (for the grace timer, the player it was set for); phase is
\* the phase the room was in when the handler started. joins counts,
\* per room code, the joinRoom calls that returned success since createRoom,
\* and whether a removePlayer call has been made on the room since.
Joins(op, code, res) ==
    IF op = "create-room"
    THEN [last.joins EXCEPT ![code] = [n |-> 0, removals |-> FALSE]]
    ELSE IF res = "joined" /\ ~last.joins[code].removals
    THEN [last.joins EXCEPT ![code].n = @ + 1]
    ELSE IF res \in {"player-left", "room-empty"}
    THEN [last.joins EXCEPT ![code].removals = TRUE]
    ELSE last.joins

Report(by, op, code, res) ==
    last' = [op |-> op, code |-> code, res |-> res, by |-> by,
             phase |-> IF code \in DOMAIN store
                       THEN store[code].gameState.phase ELSE "undefined",
             joins |-> Joins(op, code, res)]

Refused == UNCHANGED vars

CreateRoomHandler(s, playerName, maxPlayers) ==
    /\ s \in Callers
    /\ \E roomCode \in Codes :
          /\ ~roomExists(store, roomCode)
          /\ store' = createRoom(store, roomCode, s, playerName,
                                 [maxPlayers |-> maxPlayers]).store
          /\ socketRooms' = [socketRooms EXCEPT ![s] = roomCode]
          /\ Report(s, "create-room", roomCode, "ok")
    /\ Connect(s)
    /\ Request(s)
    /\ UNCHANGED <<pendingDisconnects, timers, inflight>>

JoinRoomHandler(s, roomCode, playerName) ==
    /\ s \in Callers
    /\ LET code == toUpperCase(roomCode)
           result == joinRoom(store, code, s, playerName)
       IN IF result.success
          THEN /\ store' = result.store
               /\ socketRooms' = [socketRooms EXCEPT ![s] = code]
               /\ Report(s, "join-room", code, "joined")
               /\ Connect(s)
               /\ Request(s)
               /\ UNCHANGED <<pendingDisconnects, timers, inflight>>
          ELSE IF s \in connected
          THEN Refused
          ELSE /\ Report(s, "join-room", code, result.error)
               /\ Connect(s)
               /\ UNCHANGED <<store, socketRooms, pendingDisconnects, timers,
                              budget, inflight>>

\* the rebind without lines 108-110 (room.hostId = socket.id)
RebindPlayer_keepHostId(room, playerId, socketId) ==
    LET i == FindPlayer(room.players, playerId)
    IN [room EXCEPT !.players[i].id = socketId]

\* rejoin-room, the branch where the player record still exists
RebindPlayer(room, playerId, socketId) ==
    LET i == FindPlayer(room.players, playerId)
    IN [room EXCEPT !.players[i].id = socketId,
                    !.hostId = IF room.hostId = playerId THEN socketId ELSE @]

\* the rejoin of an unknown player with the fallback of lines 131-140 left out
CanFallBack_never(room) == FALSE

\* line 131: an unknown player may fall back to a normal join
CanFallBack(room) == room.gameState.phase = "lobby"

RejoinRoomHandler(s, roomCode, playerId, playerName) ==
    /\ s \in Callers
    /\ LET code == toUpperCase(roomCode)
           room == getRoom(store, code)
           pendingKey == <<code, playerId>>
           result == joinRoom(store, code, s, playerName)
           exists == room # Null /\ FindPlayer(room.players, playerId) # 0
           fallback == room # Null /\ ~exists /\ CanFallBack(room)
           ok == exists \/ (fallback /\ result.success)
           res == IF room = Null THEN "Room not found"
                  ELSE IF exists THEN "rebound"
                  ELSE IF ~fallback THEN "Game already in progress"
                  ELSE IF result.success THEN "joined" ELSE result.error
       IN IF ~ok /\ s \in connected
             /\ (room = Null \/ pendingKey \notin pendingDisconnects)
          THEN Refused
          ELSE /\ pendingDisconnects' =
                     IF room = Null THEN pendingDisconnects
                     ELSE pendingDisconnects \ {pendingKey}
               /\ timers' = IF room # Null /\ pendingKey \in pendingDisconnects
                            THEN timers \ {pendingKey} ELSE timers
               /\ store' = IF exists
                           THEN saveRoom(store, RebindPlayer(room, playerId, s))
                           ELSE IF fallback THEN result.store ELSE store
               /\ socketRooms' = IF ok THEN [socketRooms EXCEPT ![s] = code]
                                 ELSE socketRooms
               /\ Report(s, "rejoin-room", code, res)
               /\ Connect(s)
               /\ IF ~ok THEN UNCHANGED budget
                  ELSE IF pendingKey \in pendingDisconnects THEN Request(s)
                  ELSE Irregular
               /\ UNCHANGED inflight

\* the host-only guard without the comparison room.hostId !== socket.id
IsHost_anyCaller(st, roomCode, s) == getRoom(st, roomCode) # Null

\* the guard of the host-only handlers: the room exists and the caller is its host
IsHost(st, roomCode, s) ==
    /\ getRoom(st, roomCode) # Null
    /\ getRoom(st, roomCode).hostId = s

StartGameHandler(s, shuffle) ==
    /\ s \in connected
    /\ socketRooms[s] # NoCode
    /\ LET roomCode == socketRooms[s]
           result == startGame(store, roomCode, shuffle)
       IN IF ~IsHost(store, roomCode, s)
          THEN Refused            \* error: 'Only host can start the game'
          ELSE /\ getRoom(store, roomCode).gameState.currentRound < budget.rounds
               /\ shuffle \in Shuffles(getRoom(store, roomCode).players)
               /\ IF result.threw \/ result.ret = Null
                  THEN Refused    \* error: the exception's message, or
                                  \* 'Failed to start game'
                  ELSE /\ store' = result.store
                       /\ Report(s, "start-game", roomCode, "ok")
                       /\ UNCHANGED <<socketRooms, pendingDisconnects, timers,
                                      connected, nextSock, budget, inflight>>

\* lines 204-213: the setTimeout of the reveal broadcast, scheduled when all
\* answers are in; the callback holds the reveal data of that round
RevealDelay(roomCode, result) ==
    IF result.success /\ result.shouldReveal /\ generateReveal(result.room) # Null
    THEN {<<roomCode, "reveal", result.room.gameState.currentRound>>}
    ELSE {}

SubmitAnswerHandler(s, answer) ==
    /\ s \in connected
    /\ socketRooms[s] # NoCode
    /\ LET roomCode == socketRooms[s]
           result == submitAnswer(store, roomCode, s, answer)
       IN IF ~result.success
          THEN Refused            \* error: result.error
          ELSE /\ store' = result.store
               /\ timers' = timers \cup RevealDelay(roomCode, result)
               /\ Report(s, "submit-answer", roomCode,
                         IF result.shouldReveal THEN "reveal"
                         ELSE "waiting-for-others")
               /\ UNCHANGED <<socketRooms, pendingDisconnects, connected,
                              nextSock, budget, inflight>>

NewRoundHandler(s, shuffle) ==
    /\ s \in connected
    /\ socketRooms[s] # NoCode
    /\ LET roomCode == socketRooms[s]
           result == startNewRound(store, roomCode, shuffle)
       IN IF ~IsHost(store, roomCode, s)
          THEN Refused            \* error: 'Only host can start new round'
          ELSE /\ getRoom(store, roomCode).gameState.currentRound < budget.rounds
               /\ shuffle \in Shuffles(getRoom(store, roomCode).players)
               /\ IF result.ret = Null
                  THEN Refused    \* error: 'Failed to start new round'
                  ELSE /\ store' = result.store
                       /\ Report(s, "new-round", roomCode, "ok")
                       /\ UNCHANGED <<socketRooms, pendingDisconnects, timers,
                                      connected, nextSock, budget, inflight>>

LeaveRoomHandler(s) ==
    /\ s \in connected
    /\ socketRooms[s] # NoCode
    /\ LET roomCode == socketRooms[s]
           removed == removePlayer(store, roomCode, s)
       IN /\ socketRooms' = [socketRooms EXCEPT ![s] = NoCode]
          /\ IF removed.ret # Null
             THEN /\ store' = removed.store
                  /\ Report(s, "leave-room", roomCode, "player-left")
             ELSE /\ store' = deleteRoom(removed.store, roomCode)
                  /\ Report(s, "leave-room", roomCode, "room-empty")
    /\ Departure
    /\ UNCHANGED <<pendingDisconnects, timers, connected, nextSock, inflight>>

KickPlayerHandler(s, playerId) ==
    /\ s \in connected
    /\ socketRooms[s] # NoCode
    /\ LET roomCode == socketRooms[s]
           removed == removePlayer(store, roomCode, playerId)
       IN IF ~IsHost(store, roomCode, s)
          THEN Refused            \* error: 'Only host can kick players'
          ELSE /\ socketRooms' = IF playerId \in connected
                                 THEN [socketRooms EXCEPT ![playerId] = NoCode]
                                 ELSE socketRooms
               /\ store' = removed.store
               /\ Report(s, "kick-player", roomCode,
                         IF removed.ret # Null THEN "player-left"
                         ELSE "room-empty")
               /\ IF \/ <<roomCode, playerId>> \in pendingDisconnects
                     \/ /\ FindPlayer(getRoom(store, roomCode).players,
                                      playerId) = 0
                        /\ playerId \in 1..(nextSock - 1) \ connected
                  THEN UNCHANGED budget     \* the departure is under way or over
                  ELSE Departure
               /\ UNCHANGED <<pendingDisconnects, timers, connected, nextSock,
                              inflight>>

ResetToLobbyHandler(s, newSettings) ==
    /\ s \in connected
    /\ socketRooms[s] # NoCode
    /\ LET roomCode == socketRooms[s]
           result == resetToLobby(store, roomCode, newSettings)
       IN IF ~IsHost(store, roomCode, s) \/ result.ret = Null
          THEN Refused            \* error: 'Only host can reset to lobby'
          ELSE /\ store' = result.store
               /\ Report(s, "reset-to-lobby", roomCode, "ok")
               /\ UNCHANGED <<socketRooms, pendingDisconnects, timers,
                              connected, nextSock, budget, inflight>>

DisconnectHandler(s) ==
    /\ s \in connected
    /\ Departure
    /\ connected' = connected \ {s}
    /\ IF socketRooms[s] = NoCode
       THEN /\ Report(s, "disconnect", NoCode, "not-in-room")
            /\ UNCHANGED <<socketRooms, pendingDisconnects, timers>>
       ELSE LET roomCode == socketRooms[s]
            IN /\ socketRooms' = [socketRooms EXCEPT ![s] = NoCode]
               /\ IF getRoom(store, roomCode) = Null
                  THEN /\ Report(s, "disconnect", roomCode, "Room not found")
                       /\ UNCHANGED <<pendingDisconnects, timers>>
                  ELSE /\ timers' = timers \cup {<<roomCode, s>>}
                       /\ pendingDisconnects' =
                             pendingDisconnects \cup {<<roomCode, s>>}
                       /\ Report(s, "disconnect", roomCode, "grace-period")
    /\ UNCHANGED <<store, nextSock, inflight>>

\* the timer callback without the removal of lines 383-391
GraceTimer_noRemoval(roomCode, s) ==
    /\ <<roomCode, s>> \in timers
    /\ timers' = timers \ {<<roomCode, s>>}
    /\ pendingDisconnects' = pendingDisconnects \ {<<roomCode, s>>}
    /\ Report(s, "grace-timer", roomCode, "not-in-room")
    /\ UNCHANGED <<store, socketRooms, connected, nextSock, budget, inflight>>

\* the setTimeout callback of the disconnect handler
GraceTimer(roomCode, s) ==
    /\ <<roomCode, s>> \in timers
    /\ timers' = timers \ {<<roomCode, s>>}
    /\ pendingDisconnects' = pendingDisconnects \ {<<roomCode, s>>}
    /\ LET currentRoom == getRoom(store, roomCode)
           removed == removePlayer(store, roomCode, s)
       IN IF currentRoom = Null \/ FindPlayer(currentRoom.players, s) = 0
          THEN /\ Report(s, "grace-timer", roomCode, "not-in-room")
               /\ UNCHANGED store
          ELSE IF removed.ret # Null
          THEN /\ store' = removed.store
               /\ Report(s, "grace-timer", roomCode, "player-left")
          ELSE /\ store' = deleteRoom(removed.store, roomCode)
               /\ Report(s, "grace-timer", roomCode, "room-empty")
    /\ UNCHANGED <<socketRooms, connected, nextSock, budget, inflight>>

\* the setTimeout callback of the submit-answer handler (lines 210-212):
\* io.to(roomCode).emit('reveal', revealData)
RevealTimer(roomCode, round) ==
    /\ <<roomCode, "reveal", round>> \in timers
    /\ timers' = timers \ {<<roomCode, "reveal", round>>}
    /\ Report(0, "reveal-timer", roomCode, "reveal")
    /\ UNCHANGED <<store, socketRooms, pendingDisconnects, connected, nextSock,
                   budget, inflight>>

----------------------------------------------------------------------------

\* The bounds of one behaviour: it either plays rounds with a stable
\* membership, or lets players depart around a single round, or has a
\* connection send a request that the shipped client would not send.
Budgets ==
    {[sockets |-> MaxSockets, maxPlayers |-> MaxMaxPlayers, rounds |-> MaxRound,
      shuffles |-> ShuffleBound, departures |-> 0, irregular |-> 0],
     [sockets |-> MaxSockets, maxPlayers |-> MinPlayers, rounds |-> 1,
      shuffles |-> 1, departures |-> MaxDepartures, irregular |-> 0],
     [sockets |-> MaxSockets, maxPlayers |-> MinPlayers, rounds |-> 1,
      shuffles |-> 1, departures |-> 0, irregular |-> MaxIrregular]}

Init ==
    /\ store = [c \in {} |-> Null]
    /\ socketRooms = [s \in Sockets |-> NoCode]
    /\ pendingDisconnects = {}
    /\ timers = {}
    /\ connected = {}
    /\ nextSock = 1
    /\ last = [op |-> "none", code |-> NoCode, res |-> "none", by |-> 0,
               phase |-> "undefined",
               joins |-> [c \in Codes |-> [n |-> 0, removals |-> FALSE]]]
    /\ budget \in Budgets
    /\ inflight = <<>>

\* Player names matter only through equality, so a caller picks either a name
\* already used in the room or the first name of NameList that is not.
NameChoices(room) ==
    LET taken == IF room = Null THEN {}
                 ELSE {room.players[i].name : i \in 1..Len(room.players)}
        free == {k \in 1..Len(NameList) : NameList[k] \notin taken}
    IN taken \cup {NameList[CHOOSE k \in free : \A j \in free : k <= j]}

\* rejoin-room reads playerName only when the player record is gone
RejoinNames(room, playerId) ==
    IF room # Null /\ FindPlayer(room.players, playerId) # 0
    THEN {NameList[1]}
    ELSE NameChoices(room)

\* The shuffle outcomes Spec explores: the first budget.shuffles rotations of
\* the selected players (the handlers themselves accept any permutation).
Rotation(k, n) == [i \in 1..n |-> ((i - 1 + k) % n) + 1]
ShuffleInputs(s) ==
    LET room == getRoom(store, socketRooms[s])
        n == IF room = Null THEN GroupSize ELSE Min(GroupSize, Len(room.players))
    IN {Rotation(k, n) : k \in 0..(budget.shuffles - 1)}

MaxPlayersInputs == MinPlayers..budget.maxPlayers
SettingsInputs == {NoSettings} \cup {[maxPlayers |-> n] : n \in MaxPlayersInputs}

\* The player ids a client names. Ids that are neither a player of the room,
\* nor the key of a pending disconnect, nor a mapped connection, nor the id of
\* a closed connection all behave alike: 0 stands for them.
PlayerIds(room) ==
    IF room = Null THEN {} ELSE {room.players[i].id : i \in 1..Len(room.players)}
IdInputs(roomCode) ==
    {0} \cup PlayerIds(getRoom(store, roomCode))
        \cup {p \in Sockets : <<roomCode, p>> \in pendingDisconnects}
        \cup {p \in connected : socketRooms[p] # NoCode}
        \cup {p \in 1..(nextSock - 1) : p \notin connected}

\* The reveal delay is one second: while a reveal broadcast is scheduled the
\* model lets the host's new-round or reset-to-lobby and the timers run, and
\* holds every other request back until the broadcast is out.
RevealPending ==
    \E c \in Codes, r \in 1..MaxRound : <<c, "reveal", r>> \in timers

Next ==
    \/ /\ ~RevealPending
       /\ \E s \in Sockets, n \in NameChoices(Null), m \in MaxPlayersInputs :
             CreateRoomHandler(s, n, m)
    \/ /\ ~RevealPending
       /\ \E s \in Sockets, c \in CodeInputs :
             \E n \in NameChoices(getRoom(store, toUpperCase(c))) :
                JoinRoomHandler(s, c, n)
    \/ /\ ~RevealPending
       /\ \E s \in Sockets, c \in CodeInputs :
             \E p \in IdInputs(toUpperCase(c)) :
                \E n \in RejoinNames(getRoom(store, toUpperCase(c)), p) :
                   RejoinRoomHandler(s, c, p, n)
    \/ /\ ~RevealPending
       /\ \E s \in Sockets : \E sh \in ShuffleInputs(s) : StartGameHandler(s, sh)
    \/ /\ ~RevealPending
       /\ \E s \in Sockets, a \in Texts : SubmitAnswerHandler(s, a)
    \/ \E s \in Sockets : \E sh \in ShuffleInputs(s) : NewRoundHandler(s, sh)
    \/ /\ ~RevealPending
       /\ \E s \in Sockets : LeaveRoomHandler(s)
    \/ /\ ~RevealPending
       /\ \E s \in Sockets : \E p \in IdInputs(socketRooms[s]) :
             KickPlayerHandler(s, p)
    \/ \E s \in Sockets, ns \in SettingsInputs : ResetToLobbyHandler(s, ns)
    \/ /\ ~RevealPending
       /\ \E s \in Sockets : DisconnectHandler(s)
    \/ \E c \in Codes, s \in Sockets : GraceTimer(c, s)
    \/ \E c \in Codes, r \in 1..MaxRound : RevealTimer(c, r)

Spec == Init /\ [][Next]_vars

----------------------------------------------------------------------------
(* submit-answer with its awaits: the handler yields at `await getRoom` and  *)
(* at `await saveRoom`, so a second handler can read the room in between.    *)
(* The store answers in the order it is asked (one client connection), so    *)
(* the handler that read first also saves first.                             *)

RaceTexts == {<<>>, <<" ", "h", "i", " ">>}

Pending == {k \in 1..Len(inflight) : inflight[k].pc = "loaded"}

\* lines 190-195: the handler looks up the caller's room and the engine reads it
SubmitAnswerLoad(s, answer) ==
    /\ s \in connected
    /\ socketRooms[s] # NoCode
    /\ Len(inflight) < MaxInflight
    /\ inflight' = Append(inflight,
                          [playerId |-> s, code |-> socketRooms[s],
                           answer |-> answer,
                           room |-> getRoom(store, socketRooms[s]),
                           pc |-> "loaded", success |-> FALSE,
                           shouldReveal |-> FALSE])
    /\ UNCHANGED <<store, socketRooms, pendingDisconnects, timers, connected,
                   nextSock, last, budget>>

\* lines 267-301 of the engine and 197-219 of the handler, for the request
\* that has waited longest
SubmitAnswerSave ==
    /\ Pending # {}
    /\ LET k == CHOOSE i \in Pending : \A j \in Pending : i <= j
           h == inflight[k]
           result == submitAnswerFrom(h.room, store, h.playerId, h.answer)
       IN /\ store' = result.store
          /\ inflight' = [inflight EXCEPT ![k].pc = "done",
                                          ![k].success = result.success,
                                          ![k].shouldReveal = result.shouldReveal]
          /\ timers' = timers \cup RevealDelay(h.code, result)
          /\ Report(h.playerId, "submit-answer", h.code,
                    IF ~result.success THEN result.error
                    ELSE IF result.shouldReveal THEN "reveal"
                    ELSE "waiting-for-others")
    /\ UNCHANGED <<socketRooms, pendingDisconnects, connected, nextSock, budget>>

\* a submit-answer that runs from its first line to its last without yielding
SubmitAnswerAlone(s, answer) ==
    /\ Pending = {}
    /\ SubmitAnswerHandler(s, answer)

\* A room of four in its first round, as create-room, three join-rooms and
\* start-game leave it.
RaceLobby ==
    LET created == createRoom([c \in {} |-> Null], "A", 1, NameList[1],
                              [maxPlayers |-> MinPlayers]).store
        two == joinRoom(created, "A", 2, NameList[2]).store
        three == joinRoom(two, "A", 3, NameList[3]).store
    IN joinRoom(three, "A", 4, NameList[4]).store

RaceInit ==
    /\ \E k \in 0..(ShuffleBound - 1) :
          store = startGame(RaceLobby, "A", Rotation(k, GroupSize)).store
    /\ socketRooms = [s \in Sockets |-> IF s <= MinPlayers THEN "A" ELSE NoCode]
    /\ pendingDisconnects = {}
    /\ timers = {}
    /\ connected = 1..MinPlayers
    /\ nextSock = MinPlayers + 1
    /\ last = [op |-> "start-game", code |-> "A", res |-> "ok", by |-> 1,
               phase |-> "lobby",
               joins |-> [c \in Codes |-> [n |-> MinPlayers - 1,
                                           removals |-> FALSE]]]
    /\ budget = [sockets |-> MaxSockets, maxPlayers |-> MaxMaxPlayers,
                 rounds |-> MaxRound, shuffles |-> ShuffleBound,
                 departures |-> 0, irregular |-> 0]
    /\ inflight = <<>>

RaceNext ==
    \/ /\ ~RevealPending
       /\ \E s \in Sockets, a \in RaceTexts : SubmitAnswerLoad(s, a)
    \/ SubmitAnswerSave
    \/ /\ ~RevealPending
       /\ \E s \in Sockets, a \in Texts : SubmitAnswerAlone(s, a)
    \/ \E c \in Codes, r \in 1..MaxRound : RevealTimer(c, r)

SpecRace == RaceInit /\ [][RaceNext]_vars

----------------------------------------------------------------------------
(* Properties *)

Hosts(room) == {i \in 1..Len(room.players) : room.players[i].isHost}

\* C1. Host invariant: every stored room with a non-empty players list has
\* exactly one player with isHost = true, and hostId is that player's id.
C1_HostInvariant ==
    \A c \in DOMAIN store :
       Len(store[c].players) > 0 =>
          /\ Cardinality(Hosts(store[c])) = 1
          /\ \A i \in Hosts(store[c]) : store[c].players[i].id = store[c].hostId

\* The creator of a room is always named NameList[1]: here the creator has
\* been removed and the earliest-joined remaining player has been promoted.
C1_Witness ==
    /\ last.res = "player-left"
    /\ last.code \in DOMAIN store
    /\ store[last.code].players[1].name # NameList[1]
    /\ store[last.code].players[1].isHost

\* a step that changes the phase of the room stored under code c
PhaseChange(c) ==
    /\ c \in DOMAIN store
    /\ c \in DOMAIN store'
    /\ store[c].gameState.phase # store'[c].gameState.phase

PhaseMove(c) == <<store[c].gameState.phase, store'[c].gameState.phase>>

\* C2 as stated: the phase changes only along lobby->playing, playing->reveal,
\* reveal->playing and reveal->lobby.
C2_OnlyListedMoves ==
    [][\A c \in Codes :
          PhaseChange(c) =>
             PhaseMove(c) \in {<<"lobby", "playing">>, <<"playing", "reveal">>,
                               <<"reveal", "playing">>, <<"reveal", "lobby">>}]_vars

\* C2, amended: the phase changes only along lobby->playing (start-game),
\* playing->reveal (submit-answer), reveal->playing (new-round), and from
\* playing or reveal to lobby (reset-to-lobby).
C2_PhaseMoves ==
    [][\A c \in Codes :
          PhaseChange(c) =>
             \/ PhaseMove(c) = <<"lobby", "playing">> /\ last'.op = "start-game"
             \/ PhaseMove(c) = <<"playing", "reveal">> /\ last'.op = "submit-answer"
             \/ PhaseMove(c) = <<"reveal", "playing">> /\ last'.op = "new-round"
             \/ /\ PhaseMove(c) \in {<<"playing", "lobby">>, <<"reveal", "lobby">>}
                /\ last'.op = "reset-to-lobby"]_vars

\* reset-to-lobby has taken a room from playing back to lobby
C2_Witness ==
    /\ last.op = "reset-to-lobby"
    /\ last.phase = "playing"
    /\ last.code \in DOMAIN store
    /\ store[last.code].gameState.phase = "lobby"

\* Two submitAnswer calls in a row by player p of the room stored under c.
FirstSubmit(c, p, a1) == submitAnswer(store, c, p, a1)
SecondSubmit(c, p, a1, a2) == submitAnswer(FirstSubmit(c, p, a1).store, c, p, a2)

\* C3 as stated: when a player's first submitAnswer of a round succeeds, a
\* second one with valid text fails with 'Already answered' and leaves the
\* stored room as the first call left it, whichever slot the first call fills.
C3_AlreadyAnswered ==
    \A c \in DOMAIN store :
       \A p \in PlayerIds(store[c]), a1 \in Texts, a2 \in Texts :
          FirstSubmit(c, p, a1).success /\ validateAnswer(a2).isValid =>
             /\ ~SecondSubmit(c, p, a1, a2).success
             /\ SecondSubmit(c, p, a1, a2).error = "Already answered"
             /\ SecondSubmit(c, p, a1, a2).store = FirstSubmit(c, p, a1).store

\* C3, amended: the second call fails and leaves the stored room as the first
\* call left it; its error is 'Already answered', except that it is 'Invalid
\* game state' when the first call filled the last open slot (phase reveal).
C3_SecondRejected ==
    \A c \in DOMAIN store :
       \A p \in PlayerIds(store[c]), a1 \in Texts, a2 \in Texts :
          FirstSubmit(c, p, a1).success /\ validateAnswer(a2).isValid =>
             /\ ~SecondSubmit(c, p, a1, a2).success
             /\ SecondSubmit(c, p, a1, a2).error =
                   IF FirstSubmit(c, p, a1).shouldReveal
                   THEN "Invalid game state" ELSE "Already answered"
             /\ SecondSubmit(c, p, a1, a2).store = FirstSubmit(c, p, a1).store

\* a submit-answer has just filled the fourth slot, and a further submitAnswer
\* of a player who has answered is refused with 'Invalid game state'
C3_Witness ==
    /\ last.op = "submit-answer"
    /\ last.res = "reveal"
    /\ last.code \in DOMAIN store
    /\ \E i \in 1..Len(store[last.code].players), a \in Texts :
          /\ store[last.code].players[i].hasAnswered
          /\ validateAnswer(a).isValid
          /\ submitAnswer(store, last.code, store[last.code].players[i].id, a).error
                = "Invalid game state"

\* C6. When a leave-room, kick-player or grace-period expiry finds that the
\* removal leaves no player (removePlayer returns null), no room record
\* exists under that code afterwards.
C6_EmptyRoomDeleted ==
    last.res = "room-empty" => ~roomExists(store, last.code)

\* the rooms removePlayer can be called on and the player ids it can be given
RemovalInputs(c) == PlayerIds(store[c]) \cup IdInputs(c)

Remaining(c, p) == SelectSeq(store[c].players, LAMBDA q : q.id # p)

\* C7. removePlayer returns null and saves nothing when the removal leaves no
\* player; otherwise it saves and returns the room without the removed
\* player; and no stored room has an empty players list.
C7_NeverSavesEmpty ==
    \A c \in DOMAIN store :
       /\ Len(store[c].players) > 0
       /\ \A p \in RemovalInputs(c) :
             IF Remaining(c, p) = <<>>
             THEN /\ removePlayer(store, c, p).ret = Null
                  /\ removePlayer(store, c, p).store = store
             ELSE /\ removePlayer(store, c, p).ret # Null
                  /\ Len(removePlayer(store, c, p).ret.players) = Len(Remaining(c, p))
                  /\ \A i \in 1..Len(Remaining(c, p)) :
                        removePlayer(store, c, p).ret.players[i].id
                           = Remaining(c, p)[i].id
                  /\ removePlayer(store, c, p).store[c] = removePlayer(store, c, p).ret

\* the grace period of the only player of a room has expired: removePlayer
\* returned null and the handler deleted the room
C7_Witness ==
    /\ last.op = "grace-timer"
    /\ last.res = "room-empty"
    /\ ~roomExists(store, last.code)

\* C8. In a room that has seen joinRoom calls only, players.length is 1 plus
\* the number of calls that returned success; and on a room in phase lobby
\* with players.length >= maxPlayers every joinRoom fails with 'Room is full'
\* and appends nothing.
C8_JoinCount ==
    \A c \in DOMAIN store :
       /\ ~last.joins[c].removals => Len(store[c].players) = 1 + last.joins[c].n
       /\ store[c].gameState.phase = "lobby"
             /\ Len(store[c].players) >= store[c].settings.maxPlayers =>
             \A s \in Sockets, n \in NameChoices(store[c]) :
                /\ ~joinRoom(store, c, s, n).success
                /\ joinRoom(store, c, s, n).error = "Room is full"
                /\ joinRoom(store, c, s, n).store = store

\* a join-room on a full lobby has been refused after maxPlayers - 1 joins
C8_Witness ==
    /\ last.op = "join-room"
    /\ last.res = "Room is full"
    /\ last.code \in DOMAIN store
    /\ ~last.joins[last.code].removals
    /\ last.joins[last.code].n = store[last.code].settings.maxPlayers - 1
    /\ Len(store[last.code].players) = store[last.code].settings.maxPlayers

\* C9. In every stored room no two players have the same name.
C9_DistinctNames ==
    \A c \in DOMAIN store :
       \A i, j \in 1..Len(store[c].players) :
          store[c].players[i].name = store[c].players[j].name => i = j

\* the fallback join of a rejoin-room has been refused for a name in use
C9_Witness ==
    /\ last.op = "rejoin-room"
    /\ last.res = "Name already taken"
    /\ last.code \in DOMAIN store
    /\ Len(store[last.code].players) >= 2

\* C10. joinRoom fails with 'Room not found' when the room is absent, else
\* with 'Game already in progress' when the phase is not lobby, else with
\* 'Room is full' when players.length >= maxPlayers, else with 'Name already
\* taken' when a player has that name; every failure leaves the store as it
\* was; and it succeeds when none of the four applies.
C10_JoinErrors ==
    \A c \in Codes, s \in Sockets :
       \A n \in NameChoices(getRoom(store, c)) :
          LET room == getRoom(store, c)
              result == joinRoom(store, c, s, n)
              taken == \E i \in 1..Len(room.players) : room.players[i].name = n
          IN /\ ~result.success => result.store = store
             /\ IF room = Null
                THEN ~result.success /\ result.error = "Room not found"
                ELSE IF room.gameState.phase # "lobby"
                THEN ~result.success /\ result.error = "Game already in progress"
                ELSE IF Len(room.players) >= room.settings.maxPlayers
                THEN ~result.success /\ result.error = "Room is full"
                ELSE IF taken
                THEN ~result.success /\ result.error = "Name already taken"
                ELSE result.success

\* a join-room on a full room whose game has started has been refused with
\* 'Game already in progress', the first of the two errors that apply
C10_Witness ==
    /\ last.op = "join-room"
    /\ last.res = "Game already in progress"
    /\ last.code \in DOMAIN store
    /\ Len(store[last.code].players) >= store[last.code].settings.maxPlayers

Done == {k \in 1..Len(inflight) : inflight[k].pc = "done"}

\* the stored room holds the answer of the player of request k
Recorded(k) ==
    LET room == store[inflight[k].code]
        i == FindPlayer(room.players, inflight[k].playerId)
    IN /\ room.players[i].hasAnswered
       /\ room.players[i].assignedQuestion \in DOMAIN room.gameState.answers
       /\ room.gameState.answers[room.players[i].assignedQuestion].playerId
             = inflight[k].playerId

\* C4. Once two submit-answer requests of two different players have both
\* returned success, the stored room holds both answers and both players
\* have hasAnswered = true, however the two requests interleave.
C4_NoLostUpdate ==
    \A i, j \in Done :
       /\ inflight[i].playerId # inflight[j].playerId
       /\ inflight[i].success
       /\ inflight[j].success
       => Recorded(i) /\ Recorded(j)

\* C5. Of two submit-answer requests of one connection in one round, at most
\* one returns success and at most one reports shouldReveal = true, however
\* the two requests interleave.
C5_AtMostOnce ==
    \A i, j \in Done :
       i # j /\ inflight[i].playerId = inflight[j].playerId =>
          /\ ~(inflight[i].success /\ inflight[j].success)
          /\ ~(inflight[i].shouldReveal /\ inflight[j].shouldReveal)

\* every outcome of the shuffle for the room stored under c (the identity when
\* there is no room: startGame returns before it shuffles)
ShufflesOf(c) ==
    IF c \in DOMAIN store THEN Shuffles(store[c].players)
    ELSE {[i \in 1..GroupSize |-> i]}

\* C11. startGame returns null on a missing room or a phase other than lobby,
\* throws with fewer than 4 players, and leaves the store unchanged in both
\* cases; otherwise it succeeds, sets phase = playing, increments currentRound
\* by exactly 1 and empties answers.
C11_StartGame ==
    \A c \in Codes : \A sh \in ShufflesOf(c) :
       LET room == getRoom(store, c)
           result == startGame(store, c, sh)
       IN IF room = Null \/ room.gameState.phase # "lobby"
          THEN result.ret = Null /\ ~result.threw /\ result.store = store
          ELSE IF Len(room.players) < MinPlayers
          THEN result.ret = Null /\ result.threw /\ result.store = store
          ELSE /\ result.ret # Null
               /\ ~result.threw
               /\ result.store[c] = result.ret
               /\ result.ret.gameState.phase = "playing"
               /\ result.ret.gameState.currentRound
                     = room.gameState.currentRound + 1
               /\ result.ret.gameState.answers = NoAnswers

\* start-game has started the first round of a room
C11_Witness ==
    /\ last.op = "start-game"
    /\ last.phase = "lobby"
    /\ last.code \in DOMAIN store
    /\ store[last.code].gameState.phase = "playing"
    /\ store[last.code].gameState.currentRound = 1
    /\ store[last.code].gameState.answers = NoAnswers

\* the player records of a room that hold a question
Assigned(room) ==
    {i \in 1..Len(room.players) : room.players[i].assignedQuestion # NoQuestion}

\* exactly four records hold a question, and the four questions differ
FourDistinct(room) ==
    /\ Cardinality(Assigned(room)) = Len(QUESTIONS)
    /\ {room.players[i].assignedQuestion : i \in Assigned(room)} = QuestionSet
    /\ \A i, j \in Assigned(room) :
          room.players[i].assignedQuestion = room.players[j].assignedQuestion
             => i = j

\* C12. After a successful startGame, for every outcome of the shuffle,
\* exactly four players hold an assignedQuestion, the four values are pairwise
\* distinct and are the four questions, the other players hold none, and
\* questionOrder is the fixed list.
C12_FourDistinctQuestions ==
    \A c \in DOMAIN store : \A sh \in Shuffles(store[c].players) :
       startGame(store, c, sh).ret # Null =>
          /\ FourDistinct(startGame(store, c, sh).ret)
          /\ startGame(store, c, sh).ret.gameState.questionOrder = QUESTIONS

\* C13. In every state with phase = playing, each of the four questions is
\* the assignedQuestion of at most one player record of the room.
C13_OneHolderPerQuestion ==
    \A c \in DOMAIN store :
       store[c].gameState.phase = "playing" =>
          \A i, j \in Assigned(store[c]) :
             store[c].players[i].assignedQuestion
                = store[c].players[j].assignedQuestion => i = j

DistinctIds(room) ==
    \A i, j \in 1..Len(room.players) :
       room.players[i].id = room.players[j].id => i = j

Slots(room) == Cardinality(DOMAIN room.gameState.answers)

\* C14. A successful submitAnswer reports shouldReveal = true and sets
\* phase = reveal exactly when all four slots hold an answer after it, and
\* leaves phase = playing otherwise. In a room of exactly 4 players (4
\* different ids, holding the 4 different questions of a start with 4
\* different ids) every player who has not answered succeeds with a valid
\* text and fills one more slot, so the first three submissions report
\* shouldReveal = false and the fourth reports true.
C14_RevealOnFourth ==
    \A c \in DOMAIN store : \A p \in PlayerIds(store[c]), a \in Texts :
       LET room == store[c]
           result == submitAnswer(store, c, p, a)
           i == FindPlayer(room.players, p)
       IN /\ result.success =>
               /\ result.store[c] = result.room
               /\ result.shouldReveal <=> Slots(result.room) = Len(QUESTIONS)
               /\ result.room.gameState.phase =
                     IF result.shouldReveal THEN "reveal" ELSE "playing"
          /\ /\ Len(room.players) = MinPlayers
             /\ DistinctIds(room)
             /\ FourDistinct(room)
             /\ room.gameState.phase = "playing"
             /\ ~room.players[i].hasAnswered
             /\ validateAnswer(a).isValid
             => /\ result.success
                /\ Slots(result.room) = Slots(room) + 1
                /\ result.shouldReveal <=> Slots(room) = Len(QUESTIONS) - 1

\* the fourth player of a room of four has answered: the handler reported
\* the reveal and the room is in phase reveal
C14_Witness ==
    /\ last.op = "submit-answer"
    /\ last.res = "reveal"
    /\ last.code \in DOMAIN store
    /\ Len(store[last.code].players) = MinPlayers
    /\ DistinctIds(store[last.code])
    /\ store[last.code].gameState.phase = "reveal"
    /\ Slots(store[last.code]) = Len(QUESTIONS)

\* no record of the room holds the question it held in the round before
\* (ApplyAssignments moves the old assignedQuestion to previousQuestion)
NoRepeat(room) ==
    \A i \in Assigned(room) :
       room.players[i].assignedQuestion # room.players[i].previousQuestion

\* C15. For a fixed set of exactly 4 players and every outcome of the
\* shuffle, no player's question in the round that startNewRound starts
\* equals the player's question in the round before.
C15_NoRepeatedQuestion ==
    \A c \in DOMAIN store : \A sh \in Shuffles(store[c].players) :
       /\ Len(store[c].players) = MinPlayers
       /\ DistinctIds(store[c])
       /\ startNewRound(store, c, sh).ret # Null
       => NoRepeat(startNewRound(store, c, sh).ret)

\* what a reset leaves alone in a player record
Identity(player) ==
    [id |-> player.id, name |-> player.name, isHost |-> player.isHost]

\* the settings a reset-to-lobby request can carry (none, or any maxPlayers)
ResetInputs ==
    {NoSettings} \cup {[maxPlayers |-> n] : n \in MinPlayers..MaxMaxPlayers}

\* C16. resetToLobby on an existing room, in any phase, yields phase = lobby,
\* currentRound = 0, rotationIndex = 0, empty answers and, for every player,
\* no assignedQuestion, no previousQuestion, hasAnswered = false and
\* isReady = false; the players list keeps its members, order, names, ids
\* and isHost flags, and hostId is unchanged.
C16_ResetFrame ==
    \A c \in DOMAIN store : \A ns \in ResetInputs :
       LET room == store[c]
           result == resetToLobby(store, c, ns)
       IN /\ result.ret # Null
          /\ result.store[c] = result.ret
          /\ result.ret.gameState.phase = "lobby"
          /\ result.ret.gameState.currentRound = 0
          /\ result.ret.gameState.rotationIndex = 0
          /\ result.ret.gameState.answers = NoAnswers
          /\ result.ret.hostId = room.hostId
          /\ Len(result.ret.players) = Len(room.players)
          /\ \A i \in 1..Len(room.players) :
                /\ Identity(result.ret.players[i]) = Identity(room.players[i])
                /\ result.ret.players[i].assignedQuestion = NoQuestion
                /\ result.ret.players[i].previousQuestion = NoQuestion
                /\ ~result.ret.players[i].hasAnswered
                /\ ~result.ret.players[i].isReady

\* reset-to-lobby has taken a room of at least four from reveal to a clean lobby
C16_Witness ==
    /\ last.op = "reset-to-lobby"
    /\ last.phase = "reveal"
    /\ last.code \in DOMAIN store
    /\ store[last.code].gameState.phase = "lobby"
    /\ store[last.code].gameState.currentRound = 0
    /\ Len(store[last.code].players) >= MinPlayers
    /\ \A i \in 1..Len(store[last.code].players) :
          ~store[last.code].players[i].hasAnswered

\* C17. startNewRound takes effect only in phase reveal: it then sets
\* phase = playing, increments currentRound by exactly 1 and empties answers;
\* in lobby or playing, or on a missing room, it returns null and leaves the
\* store unchanged.
C17_StartNewRound ==
    \A c \in Codes : \A sh \in ShufflesOf(c) :
       LET room == getRoom(store, c)
           result == startNewRound(store, c, sh)
       IN IF room = Null \/ room.gameState.phase # "reveal"
          THEN result.ret = Null /\ result.store = store
          ELSE /\ result.ret # Null
               /\ result.store[c] = result.ret
               /\ result.ret.gameState.phase = "playing"
               /\ result.ret.gameState.currentRound
                     = room.gameState.currentRound + 1
               /\ result.ret.gameState.answers = NoAnswers

\* new-round has started the second round of a room
C17_Witness ==
    /\ last.op = "new-round"
    /\ last.phase = "reveal"
    /\ last.code \in DOMAIN store
    /\ store[last.code].gameState.phase = "playing"
    /\ store[last.code].gameState.currentRound = 2
    /\ store[last.code].gameState.answers = NoAnswers

HostOps == {"start-game", "kick-player", "new-round", "reset-to-lobby"}

\* C18. A start-game, kick-player, new-round or reset-to-lobby request of a
\* connection that is not the host of its room fails the guard and changes
\* nothing: every step of these handlers that changes the store, the session
\* registry or the timers is a step of the room's host.
C18_HostOnly ==
    [][last'.op \in HostOps =>
          /\ last'.by \in connected
          /\ socketRooms[last'.by] = last'.code
          /\ roomExists(store, last'.code)
          /\ store[last'.code].hostId = last'.by]_vars

\* the host of a room with a connected non-host member has kicked a player
C18_Witness ==
    /\ last.op = "kick-player"
    /\ last.code \in DOMAIN store
    /\ store[last.code].hostId = last.by
    /\ \E s \in connected :
          socketRooms[s] = last.code /\ s # store[last.code].hostId

\* a step that rebinds record i of the room stored under c to connection s
Rebound(c, i, s) ==
    /\ store'[c].players = [store[c].players EXCEPT ![i].id = s]
    /\ store'[c].hostId = IF store[c].players[i].isHost THEN s
                          ELSE store[c].hostId
    /\ store'[c].gameState = store[c].gameState
    /\ store'[c].settings = store[c].settings
    /\ timers' = timers \ {<<c, store[c].players[i].id>>}
    /\ pendingDisconnects' = pendingDisconnects \ {<<c, store[c].players[i].id>>}

\* C19. A rejoin-room for a player whose record still exists cancels that
\* player's pending removal timer and changes only that record's id (and
\* hostId, if the player is the host) to the new connection id; the other
\* fields of the record, the other records, their order, and phase, round
\* and answers are unchanged.
C19_RebindFrame ==
    [][last'.op = "rejoin-room" /\ last'.res = "rebound" =>
          /\ last'.code \in DOMAIN store
          /\ last'.code \in DOMAIN store'
          /\ \E i \in 1..Len(store[last'.code].players) :
                Rebound(last'.code, i, last'.by)]_vars

\* after a disconnect in phase playing the host has come back on a new
\* connection: the record is rebound, hostId follows, no timer is left
C19_Witness ==
    /\ last.op = "rejoin-room"
    /\ last.res = "rebound"
    /\ last.phase = "playing"
    /\ last.code \in DOMAIN store
    /\ store[last.code].hostId = last.by
    /\ timers = {}
    /\ \E old \in 1..(nextSock - 1) : old \notin connected

----------------------------------------------------------------------------
(* Grace period: a timer that is scheduled and not cleared fires (setTimeout *)
(* of 30 s on a live event loop).                                            *)

SpecLive ==
    /\ Init
    /\ [][Next]_vars
    /\ \A c \in Codes, s \in Sockets : WF_vars(GraceTimer(c, s))

IsPlayer(st, c, s) == roomExists(st, c) /\ s \in PlayerIds(st[c])

\* the grace timer of player last'.by has fired in this step: if the player
\* is still in the room it is removed, with the room deleted when nobody is
\* left and the first remaining player made host otherwise
TimerRemoves ==
    LET c == last'.code
        s == last'.by
    IN /\ <<c, s>> \in timers
       /\ <<c, s>> \notin timers'
       /\ IF ~IsPlayer(store, c, s) THEN store' = store
          ELSE IF Remaining(c, s) = <<>> THEN ~roomExists(store', c)
          ELSE /\ roomExists(store', c)
               /\ ~IsPlayer(store', c, s)
               /\ Len(store'[c].players) = Len(Remaining(c, s))
               /\ store'[c].players[1].isHost
               /\ store'[c].hostId = store'[c].players[1].id

\* C20. A player whose connection has disconnected, and whose grace timer is
\* pending, eventually is no longer a player of the room under that id (the
\* timer removes the player unless a rejoin, leave or kick came first); a
\* timer fires only while it is scheduled and not cancelled, and when it
\* fires the player is removed, the host migrates and an empty room is deleted.
C20_GraceExpiry ==
    /\ \A c \in Codes, s \in Sockets :
          (<<c, s>> \in timers /\ IsPlayer(store, c, s))
             ~> ~IsPlayer(store, c, s)
    /\ [][last'.op = "grace-timer" => TimerRemoves]_vars

\* the grace timer of the room's creator has fired: the creator is removed
\* and the next player is host
C20_Witness ==
    /\ last.op = "grace-timer"
    /\ last.res = "player-left"
    /\ last.code \in DOMAIN store
    /\ last.by \notin PlayerIds(store[last.code])
    /\ store[last.code].players[1].name # NameList[1]
    /\ store[last.code].players[1].isHost

\* the outcome of a rejoin that named no player of the room, as the join of
\* connection last'.by under some name would have it
FallsBackToJoin ==
    \E k \in 1..Len(NameList) :
       LET result == joinRoom(store, last'.code, last'.by, NameList[k])
       IN /\ store' = result.store
          /\ IF result.success
             THEN /\ last'.res = "joined"
                  /\ socketRooms' = [socketRooms EXCEPT ![last'.by] = last'.code]
             ELSE /\ last'.res = result.error
                  /\ socketRooms' = socketRooms

\* C21. A rejoin-room that names a player id not in the room is, in phase
\* lobby, exactly a joinRoom of the calling connection (same store, same
\* failures for a full room or a taken name); in phase playing or reveal it
\* fails with 'Game already in progress' and the store is unchanged.
C21_RejoinUnknown ==
    [][/\ last'.op = "rejoin-room"
       /\ last'.res \notin {"rebound", "Room not found"}
       => /\ roomExists(store, last'.code)
          /\ IF last'.phase = "lobby" THEN FallsBackToJoin
             ELSE /\ last'.res = "Game already in progress"
                  /\ store' = store
                  /\ socketRooms' = socketRooms]_vars

\* a connection has rejoined a lobby under an id the room does not hold and
\* was added as a new player
C21_Witness ==
    /\ last.op = "rejoin-room"
    /\ last.res = "joined"
    /\ last.phase = "lobby"
    /\ last.by \in PlayerIds(store[last.code])

\* the players of room c that the step removes
Removed(c) ==
    {p \in Sockets : IsPlayer(store, c, p) /\ ~IsPlayer(store', c, p)}

\* C22. After a kick-player step no pending disconnect entry and no live
\* timer remains for the (room, player) that the kick removed.
C22_KickCancelsTimer ==
    [][last'.op = "kick-player" =>
          \A p \in Removed(last'.code) :
             /\ <<last'.code, p>> \notin timers'
             /\ <<last'.code, p>> \notin pendingDisconnects']_vars

\* C23. Every player-left broadcast belongs to one removal: the step that
\* reports it removes exactly one player id from the stored room (so a
\* departure that was processed already is not reported again), and a grace
\* timer that fires for a player no longer in the room changes nothing in
\* the store.
C23_DepartureOnce ==
    [][/\ last'.res = "player-left" =>
             Cardinality(Removed(last'.code)) = 1
       /\ last'.op = "grace-timer"
             /\ ~IsPlayer(store, last'.code, last'.by)
             => store' = store]_vars

----------------------------------------------------------------------------
(* create-room with its awaits: createRoom yields at `await roomExists` and  *)
(* at `await saveRoom`, so a second create-room can check the same code      *)
(* before the first one has saved its room.                                  *)

Checked == {k \in 1..Len(inflight) : inflight[k].pc = "checked"}

\* createRoom lines 46-51: generateRoomCode returned roomCode and roomExists
\* answered false, which ends the loop
CreateRoomCheck(s, roomCode, playerName, maxPlayers) ==
    /\ s \in Callers
    /\ Len(inflight) < MaxInflight
    /\ ~roomExists(store, roomCode)
    /\ inflight' = Append(inflight,
                          [playerId |-> s, code |-> roomCode,
                           name |-> playerName, maxPlayers |-> maxPlayers,
                           pc |-> "checked"])
    /\ Connect(s)
    /\ Request(s)
    /\ UNCHANGED <<store, socketRooms, pendingDisconnects, timers, last>>

\* createRoom lines 53-78 and the rest of the create-room handler, for the
\* request that has waited longest
CreateRoomSave ==
    /\ Checked # {}
    /\ LET k == CHOOSE i \in Checked : \A j \in Checked : i <= j
           h == inflight[k]
       IN /\ store' = createRoom(store, h.code, h.playerId, h.name,
                                 [maxPlayers |-> h.maxPlayers]).store
          /\ socketRooms' = [socketRooms EXCEPT ![h.playerId] = h.code]
          /\ inflight' = [inflight EXCEPT ![k].pc = "done"]
          /\ Report(h.playerId, "create-room", h.code, "ok")
    /\ UNCHANGED <<pendingDisconnects, timers, connected, nextSock, budget>>

CreateInit == Init /\ budget.departures = 0 /\ budget.irregular = 0

CreateNext ==
    \/ \E s \in Sockets, c \in Codes, n \in NameChoices(Null),
          m \in MaxPlayersInputs : CreateRoomCheck(s, c, n, m)
    \/ CreateRoomSave
    \/ \E s \in Sockets, c \in CodeInputs :
          \E n \in NameChoices(getRoom(store, toUpperCase(c))) :
             JoinRoomHandler(s, c, n)
    \/ \E s \in Sockets : \E sh \in ShuffleInputs(s) : StartGameHandler(s, sh)

SpecCreate == CreateInit /\ [][CreateNext]_vars

\* C24. A create-room step stores its room under a code that holds no room
\* before the step: no existing room is overwritten by a creation.
C24_NoOverwrite ==
    [][last'.op = "create-room" => ~roomExists(store, last'.code)]_vars

----------------------------------------------------------------------------
(* The code loop of createRoom: each turn generates a code and asks the      *)
(* store whether a room holds it.                                            *)

\* the attempts after which GameState.generateRoomCode gives up
RetryCap == 10

Looping == {k \in 1..Len(inflight) : inflight[k].pc = "looping"}

\* createRoom lines 49-51, first turn: the generated code holds a room, so
\* the loop goes round
CreateRoomCollide(s, roomCode, playerName, maxPlayers) ==
    /\ s \in Callers
    /\ Len(inflight) < MaxInflight
    /\ roomExists(store, roomCode)
    /\ inflight' = Append(inflight,
                          [playerId |-> s, code |-> roomCode,
                           name |-> playerName, maxPlayers |-> maxPlayers,
                           pc |-> "looping", attempts |-> 1])
    /\ Connect(s)
    /\ Request(s)
    /\ UNCHANGED <<store, socketRooms, pendingDisconnects, timers, last>>

\* a later turn of the loop of request k: on a code that holds a room the
\* loop goes round again, on a free code createRoom builds and saves the room
\* and the handler maps the caller to it
CreateRoomRetry(k, roomCode) ==
    /\ k \in Looping
    /\ inflight[k].attempts < MaxAttempts
    /\ LET h == inflight[k]
       IN IF roomExists(store, roomCode)
          THEN /\ inflight' = [inflight EXCEPT ![k].attempts = @ + 1,
                                               ![k].code = roomCode]
               /\ UNCHANGED <<store, socketRooms, last>>
          ELSE /\ inflight' = [inflight EXCEPT ![k].attempts = @ + 1,
                                               ![k].code = roomCode,
                                               ![k].pc = "done"]
               /\ store' = createRoom(store, roomCode, h.playerId, h.name,
                                      [maxPlayers |-> h.maxPlayers]).store
               /\ socketRooms' = [socketRooms EXCEPT ![h.playerId] = roomCode]
               /\ Report(h.playerId, "create-room", roomCode, "ok")
    /\ UNCHANGED <<pendingDisconnects, timers, connected, nextSock, budget>>

CodesInit == Init /\ budget.departures = MaxDepartures

CodesNext ==
    \/ \E s \in Sockets, n \in NameChoices(Null), m \in MaxPlayersInputs :
          CreateRoomHandler(s, n, m)
    \/ \E s \in Sockets, c \in Codes, n \in NameChoices(Null),
          m \in MaxPlayersInputs : CreateRoomCollide(s, c, n, m)
    \/ \E k \in 1..MaxInflight, c \in Codes : CreateRoomRetry(k, c)
    \/ \E s \in Sockets, c \in CodeInputs :
          \E n \in NameChoices(getRoom(store, toUpperCase(c))) :
             JoinRoomHandler(s, c, n)
    \/ \E s \in Sockets : LeaveRoomHandler(s)

SpecCodes == CodesInit /\ [][CodesNext]_vars

\* C25. A createRoom call makes at most RetryCap generate-and-check
\* attempts: no request is still in the code loop after more than that.
C25_BoundedAttempts ==
    \A k \in 1..Len(inflight) : inflight[k].attempts <= RetryCap

----------------------------------------------------------------------------
(* The validator with content moderation (not called by the engine)          *)

badWords == << <<"f", "u", "c", "k">>, <<"s", "h", "i", "t">>, <<"a", "s", "s">>,
               <<"b", "i", "t", "c", "h">>, <<"d", "a", "m", "n">>,
               <<"h", "e", "l", "l">>, <<"c", "r", "a", "p">> >>

\* String.prototype.toLowerCase on the letters of the texts below
toLowerCase(t) ==
    [i \in 1..Len(t) |-> IF t[i] = "A" THEN "a" ELSE IF t[i] = "S" THEN "s"
                         ELSE IF t[i] = "H" THEN "h" ELSE t[i]]

\* String.prototype.includes
includes(t, w) ==
    \E i \in 0..(Len(t) - Len(w)) : SubSeq(t, i + 1, i + Len(w)) = w

containsProfanity(text) ==
    \E k \in 1..Len(badWords) : includes(toLowerCase(text), badWords[k])

\* cleaned.replace(new RegExp(word, 'gi'), '*'.repeat(word.length))
RECURSIVE replaceWord(_, _)
replaceWord(t, w) ==
    IF Len(t) < Len(w) THEN t
    ELSE IF toLowerCase(SubSeq(t, 1, Len(w))) = w
    THEN [i \in 1..Len(w) |-> "*"] \o replaceWord(SubSeq(t, Len(w) + 1, Len(t)), w)
    ELSE <<Head(t)>> \o replaceWord(Tail(t), w)

RECURSIVE cleanWords(_, _)
cleanWords(t, k) ==
    IF k > Len(badWords) THEN t ELSE cleanWords(replaceWord(t, badWords[k]), k + 1)

cleanText(text) == cleanWords(text, 1)

validateAnswerModerated(text, moderationEnabled) ==
    IF text = <<>> \/ Len(trim(text)) = 0
    THEN [isValid |-> FALSE, cleanedText |-> <<>>,
          error |-> "Answer cannot be empty"]
    ELSE IF Len(text) > MaxAnswerLength
    THEN [isValid |-> FALSE, cleanedText |-> text,
          error |-> "Answer is too long (max 100 characters)"]
    ELSE IF moderationEnabled /\ containsProfanity(text)
    THEN [isValid |-> FALSE, cleanedText |-> cleanText(text),
          error |-> "Please keep it friendly!"]
    ELSE [isValid |-> TRUE, cleanedText |-> trim(text), error |-> "undefined"]

\* the texts a client can send: empty, blank, padded, at and over the limit,
\* profane in either case, and over the limit while blank or profane
ValidatorTexts ==
    Texts \cup
    {[i \in 1..MaxAnswerLength |-> "x"],
     [i \in 1..(MaxAnswerLength + 1) |-> " "],
     [i \in 1..(MaxAnswerLength + 1) |-> IF i <= 3 THEN <<"a", "s", "s">>[i] ELSE "x"],
     [i \in 1..(MaxAnswerLength + 1) |-> IF i = 1 THEN "x" ELSE " "],
     <<"a", "s", "s">>, <<" ", "A", "s", "S", " ">>, <<"c", "l", "A", "S", "S">>,
     <<"a", " ", "s", "s">>}

Blank(t) == \A i \in 1..Len(t) : t[i] = " "

\* t without its leading and trailing blanks
Trimmed(t) ==
    LET solid == {i \in 1..Len(t) : t[i] # " "}
    IN SubSeq(t, CHOOSE i \in solid : \A j \in solid : i <= j,
                 CHOOSE i \in solid : \A j \in solid : i >= j)

Profane(t) ==
    \E k \in 1..Len(badWords) : \E i \in 0..(Len(t) - Len(badWords[k])) :
       \A j \in 1..Len(badWords[k]) : toLowerCase(t)[i + j] = badWords[k][j]

\* a call of one of the two validators: moderation is "none" for the
\* validator of the engine, else "on" or "off" for moderationEnabled
Calls ==
    [answer : ValidatorTexts, moderation : {"none", "on", "off"},
     pc : {"called"}, result : {Null}]

ValidateInit ==
    /\ store = [c \in {} |-> Null]
    /\ socketRooms = [s \in Sockets |-> NoCode]
    /\ pendingDisconnects = {}
    /\ timers = {}
    /\ connected = {}
    /\ nextSock = 1
    /\ last = [op |-> "none", code |-> NoCode, res |-> "none", by |-> 0,
               phase |-> "undefined",
               joins |-> [c \in Codes |-> [n |-> 0, removals |-> FALSE]]]
    /\ budget = [sockets |-> MaxSockets, maxPlayers |-> MaxMaxPlayers,
                 rounds |-> MaxRound, shuffles |-> ShuffleBound,
                 departures |-> 0, irregular |-> 0]
    /\ inflight \in [1..MaxInflight -> Calls]

Validate(k) ==
    /\ inflight[k].pc = "called"
    /\ inflight' =
          [inflight EXCEPT
             ![k].pc = "returned",
             ![k].result =
                IF inflight[k].moderation = "none"
                THEN validateAnswer(inflight[k].answer)
                ELSE validateAnswerModerated(inflight[k].answer,
                                             inflight[k].moderation = "on")]
    /\ UNCHANGED <<store, socketRooms, pendingDisconnects, timers, connected,
                   nextSock, last, budget>>

ValidateNext == \E k \in 1..MaxInflight : Validate(k)

SpecValidate == ValidateInit /\ [][ValidateNext]_vars

\* C26. validateAnswer applies its rules in order: a blank text is rejected
\* as empty; otherwise a text of more than 100 characters is rejected as too
\* long; otherwise, with moderation enabled, a profane text is rejected;
\* otherwise the text is valid and cleanedText is the trimmed text. Two
\* calls with the same arguments return the same result.
C26_ValidateAnswer ==
    \A k \in 1..Len(inflight) :
       inflight[k].pc = "returned" =>
          LET t == inflight[k].answer
              m == inflight[k].moderation
              r == inflight[k].result
          IN /\ IF Blank(t)
                THEN ~r.isValid /\ r.error = "Answer cannot be empty"
                ELSE IF Len(t) > MaxAnswerLength
                THEN /\ ~r.isValid
                     /\ r.error = "Answer is too long (max 100 characters)"
                ELSE IF m = "on" /\ Profane(t)
                THEN ~r.isValid /\ r.error = "Please keep it friendly!"
                ELSE r.isValid /\ r.cleanedText = Trimmed(t)
             /\ \A j \in 1..Len(inflight) :
                   /\ inflight[j].pc = "returned"
                   /\ inflight[j].answer = t
                   /\ inflight[j].moderation = m
                   => inflight[j].result = r

\* 101 blanks have been rejected as empty by the validator of the engine,
\* and a padded profane text has been rejected by the moderated one
C26_Witness ==
    /\ inflight[1].pc = "returned"
    /\ inflight[1].moderation = "none"
    /\ Len(inflight[1].answer) > MaxAnswerLength
    /\ inflight[1].result.error = "Answer cannot be empty"
    /\ inflight[2].pc = "returned"
    /\ inflight[2].moderation = "on"
    /\ inflight[2].answer = <<" ", "A", "s", "S", " ">>
    /\ inflight[2].result.error = "Please keep it friendly!"

\* the errors of submitAnswer
SubmitErrors ==
    {"Invalid game state", "Player not found or no question assigned",
     "Already answered", "Answer cannot be empty",
     "Answer is too long (max 100 characters)"}

\* a submitAnswer call on the current store that fails returns one of the
\* errors and the store as it was
FailureKeepsStore ==
    \A c \in Codes, p \in {0} \cup Sockets, a \in Texts :
       LET result == submitAnswer(store, c, p, a)
       IN ~result.success =>
             /\ result.store = store
             /\ result.error \in SubmitErrors
             /\ result.room = Null

\* request k of the queue ends in this step, and ends in failure
Fails(k) ==
    /\ inflight[k].pc = "loaded"
    /\ inflight'[k].pc = "done"
    /\ ~inflight'[k].success

\* C27. Every failing submitAnswer (wrong phase, unknown player or no
\* question, already answered, text rejected) leaves the store unchanged, and
\* the handler step that ends in a failure changes neither the store nor the
\* connection map: the error goes back to the caller alone.
C27_FailedSubmit ==
    /\ []FailureKeepsStore
    /\ [][\A k \in 1..Len(inflight) :
             Fails(k) =>
                /\ store' = store
                /\ socketRooms' = socketRooms
                /\ last'.op = "submit-answer"
                /\ last'.res \in SubmitErrors
                /\ last'.by = inflight[k].playerId]_vars

\* a submit-answer of a player who had answered before has just been refused
C27_Witness ==
    /\ last.op = "submit-answer"
    /\ last.res = "Already answered"
    /\ \E k \in 1..Len(inflight) :
          /\ inflight[k].pc = "done"
          /\ ~inflight[k].success
          /\ inflight[k].playerId = last.by
    /\ \E i \in 1..Len(store[last.code].players) :
          /\ store[last.code].players[i].id = last.by
          /\ store[last.code].players[i].hasAnswered

----------------------------------------------------------------------------
(* generateReveal applied to rooms with any of their four slots filled        *)

\* the answers a slot can hold in the reveal check, or NoQuestion for none
SlotTexts ==
    [who |-> {AliceText, BobText}, withWhom |-> {ADragon, BobText},
     where |-> {TheMoon, BobText}, how |-> {Accidentally, BobText}]

\* A room of four in its first round in which the players holding the
\* questions of `given` have answered with the texts of `given`.
RevealRoom(given) ==
    LET playing == startGame(RaceLobby, "A", Rotation(0, GroupSize)).ret
        holder(q) == CHOOSE i \in 1..Len(playing.players) :
                        playing.players[i].assignedQuestion = q
    IN [playing EXCEPT
          !.gameState.answers =
              [q \in DOMAIN given |->
                  [playerId |-> playing.players[holder(q)].id,
                   answer |-> given[q]]],
          !.gameState.phase =
              IF DOMAIN given = QuestionSet THEN "reveal" ELSE "playing",
          !.players = [i \in 1..Len(playing.players) |->
                          [playing.players[i] EXCEPT
                              !.hasAnswered =
                                  playing.players[i].assignedQuestion
                                     \in DOMAIN given]]]

Givens ==
    UNION {[qs -> UNION {SlotTexts[q] : q \in QuestionSet}] :
              qs \in SUBSET QuestionSet}

RevealInit ==
    /\ \E given \in Givens :
          /\ \A q \in DOMAIN given : given[q] \in SlotTexts[q]
          /\ store = saveRoom([c \in {} |-> Null], RevealRoom(given))
    /\ socketRooms = [s \in Sockets |-> IF s <= MinPlayers THEN "A" ELSE NoCode]
    /\ pendingDisconnects = {}
    /\ timers = {}
    /\ connected = 1..MinPlayers
    /\ nextSock = MinPlayers + 1
    /\ last = [op |-> "submit-answer", code |-> "A", res |-> "none", by |-> 1,
               phase |-> "playing",
               joins |-> [c \in Codes |-> [n |-> MinPlayers - 1,
                                           removals |-> FALSE]]]
    /\ budget = [sockets |-> MaxSockets, maxPlayers |-> MaxMaxPlayers,
                 rounds |-> MaxRound, shuffles |-> ShuffleBound,
                 departures |-> 0, irregular |-> 0]
    /\ inflight = <<[code |-> "A", pc |-> "called", result |-> Null]>>

\* the handler's call generateReveal(result.room)
GenerateReveal ==
    /\ inflight[1].pc = "called"
    /\ inflight' = [inflight EXCEPT
                       ![1].pc = "returned",
                       ![1].result = generateReveal(store[inflight[1].code])]
    /\ UNCHANGED <<store, socketRooms, pendingDisconnects, timers, connected,
                   nextSock, last, budget>>

RevealNext == GenerateReveal

SpecReveal == RevealInit /\ [][RevealNext]_vars

Returned == inflight[1].pc = "returned"

\* C28. generateReveal returns null exactly when one of the four slots has
\* no answer; otherwise the sentence is who + ' was with ' + withWhom +
\* ' at ' + where + ', and they did it ' + how + '.', and Alice / a dragon /
\* the moon / accidentally give 'Alice was with a dragon at the moon, and
\* they did it accidentally.'.
C28_GenerateReveal ==
    Returned =>
       LET answers == store[inflight[1].code].gameState.answers
           result == inflight[1].result
       IN /\ result = Null <=> DOMAIN answers # QuestionSet
          /\ DOMAIN answers = QuestionSet =>
                /\ result.sentence =
                      answers["who"].answer \o WasWith
                         \o answers["withWhom"].answer \o At
                         \o answers["where"].answer \o AndTheyDidIt
                         \o answers["how"].answer \o Stop
                /\ /\ answers["who"].answer = AliceText
                   /\ answers["withWhom"].answer = ADragon
                   /\ answers["where"].answer = TheMoon
                   /\ answers["how"].answer = Accidentally
                   => result.sentence = ExampleSentence

\* the example of the claim has been revealed
C28_Witness ==
    /\ Returned
    /\ inflight[1].result # Null
    /\ inflight[1].result.who = AliceText
    /\ inflight[1].result.sentence = ExampleSentence

\* the reveal broadcast of round r of room c goes out in this step
Reveals(c, r) ==
    /\ <<c, "reveal", r>> \in timers
    /\ <<c, "reveal", r>> \notin timers'

\* C29. Every reveal broadcast goes out while its room is in phase reveal of
\* the round whose answers it shows: none arrives after a new-round
\* (game-started) or a reset-to-lobby (game-reset).
C29_NoStaleReveal ==
    [][\A c \in Codes, r \in 1..MaxRound :
          Reveals(c, r) =>
             /\ roomExists(store, c)
             /\ store[c].gameState.phase = "reveal"
             /\ store[c].gameState.currentRound = r]_vars

\* C30. When removePlayer removes the host and players remain, the first of
\* the remaining players (the earliest joined: joinRoom appends) becomes
\* host: its isHost is true and hostId is its id, and the other records are
\* untouched. Removing another player changes neither hostId nor any record
\* of the remaining players.
C30_HostMigration ==
    \A c \in DOMAIN store : \A p \in RemovalInputs(c) :
       LET room == store[c]
           rest == Remaining(c, p)
           ret == removePlayer(store, c, p).ret
       IN rest # <<>> =>
             /\ ret # Null
             /\ Len(ret.players) = Len(rest)
             /\ ret.settings = room.settings
             /\ ret.gameState = room.gameState
             /\ IF p = room.hostId
                THEN /\ ret.hostId = rest[1].id
                     /\ ret.players[1] = [rest[1] EXCEPT !.isHost = TRUE]
                     /\ \A i \in 2..Len(rest) : ret.players[i] = rest[i]
                ELSE /\ ret.hostId = room.hostId
                     /\ ret.players = rest

\* the creator has left a room of at least three: the second joiner is host
\* and the player after it is not
C30_Witness ==
    /\ last.op = "leave-room"
    /\ last.res = "player-left"
    /\ last.code \in DOMAIN store
    /\ Len(store[last.code].players) >= 2
    /\ store[last.code].players[1].name = NameList[2]
    /\ store[last.code].players[1].isHost
    /\ store[last.code].hostId = store[last.code].players[1].id
    /\ ~store[last.code].players[2].isHost

----------------------------------------------------------------------------
(* Rotation in rooms of five or more *)

\* the results of the two operations that start a round, for the room stored
\* under c and the shuffle sh, that are a success
RoundStarts(c, sh) ==
    {r \in {startGame(store, c, sh).ret, startNewRound(store, c, sh).ret} :
        r # Null}

\* the list positions of cohort k of n players: 4k+1 .. 4k+4, cut at n
Cohort(k, n) == {i \in 1..n : (i - 1) \div GroupSize = k}

\* the positions the code selects: four from the cohort's first, going on at
\* the head of the list when the list ends
Selected(k, n) == {((k * GroupSize + j) % n) + 1 : j \in 0..(GroupSize - 1)}

CohortCount(n) == (n + GroupSize - 1) \div GroupSize

\* C31 as stated. With 5 or more players, a round start gives questions to
\* the members of cohort (rotationIndex mod cohortCount) and to nobody else,
\* and adds 1 to rotationIndex.
C31_CohortOnly ==
    \A c \in DOMAIN store : \A sh \in ShufflesOf(c) :
       \A ret \in RoundStarts(c, sh) :
          LET room == store[c]
              n == Len(room.players)
          IN n >= GroupSize + 1 =>
                /\ Assigned(ret)
                      = Cohort(room.gameState.rotationIndex % CohortCount(n), n)
                /\ ret.gameState.rotationIndex
                      = room.gameState.rotationIndex + 1

\* C31 as amended. With 5 or more players, a round start gives questions to
\* the players whose id is that of one of the four positions starting at the
\* first of cohort (rotationIndex mod cohortCount), counted round the list
\* (a last cohort of fewer than four is filled up from the head of the
\* list); every other player has assignedQuestion undefined; rotationIndex
\* grows by exactly 1.
C31_RotationWraps ==
    \A c \in DOMAIN store : \A sh \in ShufflesOf(c) :
       \A ret \in RoundStarts(c, sh) :
          LET room == store[c]
              n == Len(room.players)
              sel == Selected(room.gameState.rotationIndex % CohortCount(n), n)
          IN n >= GroupSize + 1 =>
                /\ Len(ret.players) = n
                /\ Assigned(ret)
                      = {i \in 1..n :
                            \E j \in sel : room.players[j].id = room.players[i].id}
                /\ \A i \in 1..n : ret.players[i].id = room.players[i].id
                /\ ret.gameState.rotationIndex
                      = room.gameState.rotationIndex + 1

\* the second round of a room of five: the fifth player and the first three
\* hold a question, the fourth holds none
C31_Witness ==
    /\ last.op = "new-round"
    /\ last.code \in DOMAIN store
    /\ Len(store[last.code].players) = GroupSize + 1
    /\ store[last.code].gameState.rotationIndex = 2
    /\ Assigned(store[last.code]) = {1, 2, 3, 5}

----------------------------------------------------------------------------
(* The cycling variant: class GameState (src/unnamed/part_008)               *)
(*                                                                         *)
(* SpecCycle calls the methods of the class on the room store. room.players *)
(* is an object keyed by player id; Object.keys lists the ids in the order  *)
(* they were first set (the ids are strings that are no array indices), so  *)
(* the model keeps the records in a sequence. A player's name and connected *)
(* flag are never read and are left out.                                    *)

\* player ids a caller of the class passes
MaxKeys == 4
KeyList == <<"sa", "sb", "sc", "sd", "se">>
Keys == {KeyList[i] : i \in 1..MaxKeys}

\* config.questions, config.game.maxPlayersPerRoom
questions == <<"who", "with_whom", "where", "how">>
maxPlayersPerRoom == 10

\* Object.keys(room.players)
ObjectKeys(players) == [i \in 1..Len(players) |-> players[i].id]

GameState_createRoom(st, roomCode, hostId) ==
    LET room == [code |-> roomCode, host_id |-> hostId, players |-> <<>>,
                 status |-> "lobby", current_round |-> 0,
                 question_assignments |-> [q \in {} |-> "undefined"]]
    IN [ret |-> room, store |-> saveRoom(st, room)]

\* room.players[playerId] = {...}: a new key goes last, a key that is set
\* already keeps its place
GameState_addPlayer(st, roomCode, playerId) ==
    LET room == getRoom(st, roomCode)
    IN IF room = Null THEN [ret |-> FALSE, store |-> st]
       ELSE IF Len(room.players) >= maxPlayersPerRoom
       THEN [ret |-> FALSE, store |-> st]
       ELSE LET player == [id |-> playerId, ready |-> FALSE,
                           is_host |-> playerId = room.host_id]
                at == {i \in 1..Len(room.players) : room.players[i].id = playerId}
                players == IF at = {} THEN Append(room.players, player)
                           ELSE [i \in 1..Len(room.players) |->
                                    IF i \in at THEN player ELSE room.players[i]]
                updated == [room EXCEPT !.players = players]
            IN [ret |-> TRUE, store |-> saveRoom(st, updated)]

GameState_removePlayer(st, roomCode, playerId) ==
    LET room == getRoom(st, roomCode)
    IN IF room = Null THEN [store |-> st]
       ELSE LET rest == SelectSeq(room.players, LAMBDA p : p.id # playerId)
                updated ==
                   IF room.host_id = playerId /\ Len(rest) > 0
                   THEN [room EXCEPT
                           !.host_id = rest[1].id,
                           !.players = [rest EXCEPT ![1].is_host = TRUE]]
                   ELSE [room EXCEPT !.players = rest]
            IN IF Len(rest) = 0
               THEN [store |-> deleteRoom(st, roomCode)]
               ELSE [store |-> saveRoom(st, updated)]

\* assignQuestions giving question i to playerIds[i]: with fewer than four
\* players the value is undefined, and JSON.stringify drops the key
assignQuestions_noCycle(playerIds) ==
    [q \in {questions[i] : i \in 1..Min(Len(questions), Len(playerIds))} |->
        playerIds[CHOOSE i \in 1..Len(questions) : questions[i] = q]]

\* playerIds[i % playerIds.length]; with no player the index is NaN, the
\* value undefined, and JSON.stringify drops the key
assignQuestions(playerIds) ==
    IF Len(playerIds) = 0 THEN [q \in {} |-> "undefined"]
    ELSE [q \in {questions[i] : i \in 1..Len(questions)} |->
             LET i == CHOOSE k \in 1..Len(questions) : questions[k] = q
             IN playerIds[((i - 1) % Len(playerIds)) + 1]]

GameState_startGame(st, roomCode) ==
    LET room == getRoom(st, roomCode)
    IN IF room = Null THEN [ret |-> FALSE, store |-> st]
       ELSE IF room.status # "lobby" THEN [ret |-> FALSE, store |-> st]
       ELSE LET started ==
                   [room EXCEPT
                      !.status = "in_game",
                      !.current_round = @ + 1,
                      !.question_assignments =
                          assignQuestions(ObjectKeys(room.players))]
            IN [ret |-> TRUE, store |-> saveRoom(st, started)]

GameState_returnToLobby(st, roomCode) ==
    LET room == getRoom(st, roomCode)
    IN IF room = Null THEN [ret |-> FALSE, store |-> st]
       ELSE LET lobby ==
                   [room EXCEPT
                      !.status = "lobby",
                      !.players = [i \in 1..Len(room.players) |->
                                      [room.players[i] EXCEPT !.ready = FALSE]]]
            IN [ret |-> TRUE, store |-> saveRoom(st, lobby)]

\* a call of a method of the class that changed the store
CycleCall(op, roomCode, playerId, result) ==
    /\ result.store # store
    /\ store' = result.store
    /\ last' = [last EXCEPT !.op = op, !.code = roomCode, !.by = playerId]
    /\ UNCHANGED <<socketRooms, pendingDisconnects, timers, connected, nextSock,
                   budget, inflight>>

\* generateRoomCode has returned a code that no room has
CycleCreateRoom(roomCode, hostId) ==
    /\ ~roomExists(store, roomCode)
    /\ CycleCall("createRoom", roomCode, hostId,
                 GameState_createRoom(store, roomCode, hostId))

CycleAddPlayer(roomCode, playerId) ==
    CycleCall("addPlayer", roomCode, playerId,
              GameState_addPlayer(store, roomCode, playerId))

CycleRemovePlayer(roomCode, playerId) ==
    CycleCall("removePlayer", roomCode, playerId,
              GameState_removePlayer(store, roomCode, playerId))

CycleStartGame(roomCode) ==
    /\ roomExists(store, roomCode) => store[roomCode].current_round < MaxRound
    /\ CycleCall("startGame", roomCode, "undefined",
                 GameState_startGame(store, roomCode))

CycleReturnToLobby(roomCode) ==
    CycleCall("returnToLobby", roomCode, "undefined",
              GameState_returnToLobby(store, roomCode))

CycleInit == Init /\ budget.departures = 0 /\ budget.irregular = 0

CycleNext ==
    \/ \E c \in Codes, p \in Keys : CycleCreateRoom(c, p)
    \/ \E c \in Codes, p \in Keys : CycleAddPlayer(c, p)
    \/ \E c \in Codes, p \in Keys : CycleRemovePlayer(c, p)
    \/ \E c \in Codes : CycleStartGame(c)
    \/ \E c \in Codes : CycleReturnToLobby(c)

SpecCycle == CycleInit /\ [][CycleNext]_vars

\* C32. In the cycling variant, startGame on a lobby with 1 to 3 players
\* succeeds and gives each of the four questions to a player of the room:
\* question i (counted from 0) to player i mod n in the order of the keys.
C32_CycleFillsSlots ==
    \A c \in DOMAIN store :
       LET room == store[c]
           n == Len(room.players)
           result == GameState_startGame(store, c)
       IN room.status = "lobby" /\ n \in 1..(Len(questions) - 1) =>
             /\ result.ret
             /\ DOMAIN result.store[c].question_assignments
                   = {questions[i] : i \in 1..Len(questions)}
             /\ \A i \in 1..Len(questions) :
                   /\ result.store[c].question_assignments[questions[i]]
                         = room.players[((i - 1) % n) + 1].id
                   /\ \E k \in 1..Len(result.store[c].players) :
                         result.store[c].players[k].id
                            = result.store[c].question_assignments[questions[i]]

\* a game was started with two players: they hold two questions each
C32_Witness ==
    /\ last.op = "startGame"
    /\ last.code \in DOMAIN store
    /\ store[last.code].status = "in_game"
    /\ ObjectKeys(store[last.code].players) = <<"sa", "sb">>
    /\ store[last.code].question_assignments["who"] = "sa"
    /\ store[last.code].question_assignments["with_whom"] = "sb"
    /\ store[last.code].question_assignments["where"] = "sa"
    /\ store[last.code].question_assignments["how"] = "sb"

----------------------------------------------------------------------------
(* Rooms in reveal *)

\* C33. Every stored room in phase reveal holds an answer in each of the four
\* slots, so generateReveal does not return null on it.
C33_RevealIsComplete ==
    \A c \in DOMAIN store :
       store[c].gameState.phase = "reveal" =>
          /\ DOMAIN store[c].gameState.answers = QuestionSet
          /\ generateReveal(store[c]) # Null

\* a player has left a room in reveal: the room is still in reveal and the
\* answer of the player who left is still in its slot
C33_Witness ==
    /\ last.op \in {"leave-room", "kick-player", "grace-timer"}
    /\ last.res = "player-left"
    /\ last.code \in DOMAIN store
    /\ store[last.code].gameState.phase = "reveal"
    /\ \E q \in DOMAIN store[last.code].gameState.answers :
          store[last.code].gameState.answers[q].playerId
             \notin PlayerIds(store[last.code])

----------------------------------------------------------------------------
(* Rounds in progress *)

\* the questions of a room that somebody can still answer
Open(room) ==
    {room.players[i].assignedQuestion :
        i \in {j \in 1..Len(room.players) : ~room.players[j].hasAnswered}}

\* C34. In every stored room in phase playing, each of the four questions
\* has a recorded answer or is the assignedQuestion of a player of the room
\* who has not answered, so submitAnswer calls alone can take the room to
\* reveal. (Stated for the rooms whose player ids are pairwise distinct: a
\* room with a repeated id starts its round with a question nobody holds.)
C34_RoundCompletable ==
    \A c \in DOMAIN store :
       store[c].gameState.phase = "playing" /\ DistinctIds(store[c]) =>
          \A q \in QuestionSet :
             q \in DOMAIN store[c].gameState.answers \/ q \in Open(store[c])

\* C35. After every successful startNewRound, whatever the shuffle, exactly
\* four players of the room hold a question and the four questions differ.
\* (Stated for the rooms whose player ids are pairwise distinct.)
C35_NewRoundAssignsFour ==
    \A c \in DOMAIN store : \A sh \in ShufflesOf(c) :
       LET result == startNewRound(store, c, sh)
       IN result.ret # Null /\ DistinctIds(store[c]) =>
             FourDistinct(result.ret)

----------------------------------------------------------------------------
(* rejoin-room against the grace timer, with their awaits                   *)
(*                                                                         *)
(* SpecRejoin splits the rejoin-room handler at `await getRoom` and         *)
(* `await saveRoom`, and the timer callback at `await getRoom` and at the   *)
(* getRoom and saveRoom inside removePlayer. The store answers in the order *)
(* it is asked, so the continuation whose request is oldest runs first.     *)

Waiting == {k \in 1..Len(inflight) : inflight[k].pc # "done"}

\* the handler whose request the store answers next
Turn(k) == k \in Waiting /\ \A j \in Waiting : inflight[k].seq <= inflight[j].seq

\* the number of the next request to the store
NextSeq ==
    IF inflight = <<>> THEN 1
    ELSE 1 + CHOOSE n \in {inflight[k].seq : k \in 1..Len(inflight)} :
                 \A k \in 1..Len(inflight) : inflight[k].seq <= n

\* lines 82-84: a new connection asks to rejoin as a player whose connection
\* has closed; getRoom is on its way
RejoinLoad(s, roomCode, playerId) ==
    /\ s \in Callers \ connected
    /\ playerId \in 1..(nextSock - 1) \ connected
    /\ \A k \in 1..Len(inflight) : inflight[k].op # "rejoin-room"
    /\ inflight' = Append(inflight,
                          [op |-> "rejoin-room", pc |-> "loaded", s |-> s,
                           code |-> toUpperCase(roomCode), playerId |-> playerId,
                           room |-> getRoom(store, toUpperCase(roomCode)),
                           seq |-> NextSeq, ok |-> FALSE])
    /\ Connect(s)
    /\ UNCHANGED <<store, socketRooms, pendingDisconnects, timers, last, budget>>

\* lines 86-112 and 130-144: from the answer of getRoom to saveRoom (or to
\* the callback, when nothing is saved by the handler itself)
RejoinResume(k) ==
    /\ Turn(k)
    /\ inflight[k].op = "rejoin-room" /\ inflight[k].pc = "loaded"
    /\ LET h == inflight[k]
           pendingKey == <<h.code, h.playerId>>
           exists == h.room # Null /\ FindPlayer(h.room.players, h.playerId) # 0
           fallback == h.room # Null /\ ~exists /\ CanFallBack(h.room)
           result == joinRoom(store, h.code, h.s, NameList[Len(NameList)])
       IN /\ pendingDisconnects' = IF h.room = Null THEN pendingDisconnects
                                   ELSE pendingDisconnects \ {pendingKey}
          /\ timers' = IF h.room = Null THEN timers ELSE timers \ {pendingKey}
          /\ IF exists
             THEN /\ store' = saveRoom(store,
                                       RebindPlayer(h.room, h.playerId, h.s))
                  /\ inflight' = [inflight EXCEPT ![k].pc = "saved",
                                                  ![k].seq = NextSeq]
                  /\ UNCHANGED <<socketRooms, last>>
             ELSE IF fallback /\ result.success
             THEN /\ store' = result.store
                  /\ socketRooms' = [socketRooms EXCEPT ![h.s] = h.code]
                  /\ inflight' = [inflight EXCEPT ![k].pc = "done",
                                                  ![k].ok = TRUE]
                  /\ Report(h.s, "rejoin-room", h.code, "joined")
             ELSE /\ inflight' = [inflight EXCEPT ![k].pc = "done"]
                  /\ Report(h.s, "rejoin-room", h.code,
                            IF h.room = Null THEN "Room not found"
                            ELSE IF ~fallback THEN "Game already in progress"
                            ELSE result.error)
                  /\ UNCHANGED <<store, socketRooms>>
    /\ UNCHANGED <<connected, nextSock, budget>>

\* lines 114-120: saveRoom has returned; callback(true, room)
RejoinFinish(k) ==
    /\ Turn(k)
    /\ inflight[k].op = "rejoin-room" /\ inflight[k].pc = "saved"
    /\ socketRooms' = [socketRooms EXCEPT ![inflight[k].s] = inflight[k].code]
    /\ inflight' = [inflight EXCEPT ![k].pc = "done", ![k].ok = TRUE]
    /\ Report(inflight[k].s, "rejoin-room", inflight[k].code, "rebound")
    /\ UNCHANGED <<store, pendingDisconnects, timers, connected, nextSock, budget>>

\* lines 373-378: the timeout fires; the key is deleted, getRoom is on its way
GraceTimerFire(roomCode, s) ==
    /\ <<roomCode, s>> \in timers
    /\ timers' = timers \ {<<roomCode, s>>}
    /\ pendingDisconnects' = pendingDisconnects \ {<<roomCode, s>>}
    /\ inflight' = Append(inflight,
                          [op |-> "grace-timer", pc |-> "fired", s |-> s,
                           code |-> roomCode, playerId |-> s,
                           room |-> getRoom(store, roomCode),
                           seq |-> NextSeq, ok |-> FALSE])
    /\ UNCHANGED <<store, socketRooms, connected, nextSock, last, budget>>

\* lines 379-385: the player is looked up in the room that was read;
\* removePlayer is called and its getRoom is on its way
GraceTimerCheck(k) ==
    /\ Turn(k)
    /\ inflight[k].op = "grace-timer" /\ inflight[k].pc = "fired"
    /\ LET h == inflight[k]
       IN IF h.room = Null \/ FindPlayer(h.room.players, h.playerId) = 0
          THEN /\ inflight' = [inflight EXCEPT ![k].pc = "done"]
               /\ Report(h.playerId, "grace-timer", h.code, "not-in-room")
          ELSE /\ inflight' = [inflight EXCEPT
                                  ![k].pc = "removing",
                                  ![k].room = getRoom(store, h.code),
                                  ![k].seq = NextSeq]
               /\ UNCHANGED last
    /\ UNCHANGED <<store, socketRooms, pendingDisconnects, timers, connected,
                   nextSock, budget>>

\* lines 127-145 of the engine on the room removePlayer has read, and lines
\* 387-394 of the callback
GraceTimerRemove(k) ==
    /\ Turn(k)
    /\ inflight[k].op = "grace-timer" /\ inflight[k].pc = "removing"
    /\ LET h == inflight[k]
           updatedRoom ==
              IF h.room = Null THEN Null
              ELSE removePlayer(saveRoom(store, h.room), h.code, h.playerId).ret
       IN IF updatedRoom # Null
          THEN /\ store' = saveRoom(store, updatedRoom)
               /\ Report(h.playerId, "grace-timer", h.code, "player-left")
          ELSE /\ store' = deleteRoom(store, h.code)
               /\ Report(h.playerId, "grace-timer", h.code, "room-empty")
    /\ inflight' = [inflight EXCEPT ![k].pc = "done", ![k].ok = TRUE]
    /\ UNCHANGED <<socketRooms, pendingDisconnects, timers, connected, nextSock,
                   budget>>

\* a lobby of n players, as create-room and n - 1 join-rooms leave it
RECURSIVE LobbyOf(_)
LobbyOf(n) ==
    IF n = 1
    THEN createRoom([c \in {} |-> Null], "A", 1, NameList[1],
                    [maxPlayers |-> MinPlayers]).store
    ELSE joinRoom(LobbyOf(n - 1), "A", n, NameList[n]).store

\* a lobby of one to four players, or a room of four in its first round
RejoinInit ==
    /\ \E n \in 1..MinPlayers :
          /\ \/ store = LobbyOf(n)
             \/ /\ n = MinPlayers
                /\ \E k \in 0..(ShuffleBound - 1) :
                      store = startGame(LobbyOf(n), "A",
                                        Rotation(k, GroupSize)).store
          /\ socketRooms = [s \in Sockets |-> IF s <= n THEN "A" ELSE NoCode]
          /\ connected = 1..n
          /\ nextSock = n + 1
          /\ last = [op |-> "join-room", code |-> "A", res |-> "joined",
                     by |-> n, phase |-> "lobby",
                     joins |-> [c \in Codes |-> [n |-> n - 1,
                                                 removals |-> FALSE]]]
    /\ pendingDisconnects = {}
    /\ timers = {}
    /\ budget = [sockets |-> MaxSockets, maxPlayers |-> MinPlayers,
                 rounds |-> 1, shuffles |-> ShuffleBound,
                 departures |-> MaxDepartures, irregular |-> 0]
    /\ inflight = <<>>

RejoinNext ==
    \/ \E s \in Sockets : DisconnectHandler(s)
    \/ \E s \in Sockets, c \in CodeInputs, p \in Sockets : RejoinLoad(s, c, p)
    \/ \E k \in 1..Len(inflight) : RejoinResume(k)
    \/ \E k \in 1..Len(inflight) : RejoinFinish(k)
    \/ \E c \in Codes, s \in Sockets : GraceTimerFire(c, s)
    \/ \E k \in 1..Len(inflight) : GraceTimerCheck(k)
    \/ \E k \in 1..Len(inflight) : GraceTimerRemove(k)

SpecRejoin == RejoinInit /\ [][RejoinNext]_vars

\* C36. Once the rejoin-room handler and the timer callback of the same
\* player have both finished, a rejoin whose callback reported success has
\* left the player in the stored room under the new connection id.
C36_RejoinSurvivesTimer ==
    \A k, t \in 1..Len(inflight) :
       /\ inflight[k].op = "rejoin-room" /\ inflight[k].pc = "done"
       /\ inflight[k].ok
       /\ inflight[t].op = "grace-timer" /\ inflight[t].pc = "done"
       /\ inflight[t].playerId = inflight[k].playerId
       => /\ inflight[k].code \in DOMAIN store
          /\ FindPlayer(store[inflight[k].code].players, inflight[k].s) # 0

----------------------------------------------------------------------------
(* Two rooms *)
(*                                                                         *)
(* SpecRooms starts with two lobbies, A and B, as two create-room requests  *)
(* leave them, and runs join-room, leave-room and kick-player on them.      *)

RoomCodes == {"A", "B"}
RoomInputs == {"a", "b"}

RoomsInit ==
    /\ store = createRoom(createRoom([c \in {} |-> Null], "A", 1, NameList[1],
                                     [maxPlayers |-> MinPlayers]).store,
                          "B", 2, NameList[1], [maxPlayers |-> MinPlayers]).store
    /\ socketRooms = [s \in Sockets |-> IF s = 1 THEN "A"
                                        ELSE IF s = 2 THEN "B" ELSE NoCode]
    /\ pendingDisconnects = {}
    /\ timers = {}
    /\ connected = {1, 2}
    /\ nextSock = 3
    /\ last = [op |-> "create-room", code |-> "B", res |-> "ok", by |-> 2,
               phase |-> "undefined",
               joins |-> [c \in RoomCodes |-> [n |-> 0, removals |-> FALSE]]]
    /\ budget = [sockets |-> MaxSockets, maxPlayers |-> MinPlayers,
                 rounds |-> 1, shuffles |-> 1,
                 departures |-> MaxDepartures, irregular |-> MaxIrregular]
    /\ inflight = <<>>

RoomsNext ==
    \/ \E s \in Sockets, c \in RoomInputs :
          \E n \in NameChoices(getRoom(store, toUpperCase(c))) :
             JoinRoomHandler(s, c, n)
    \/ \E s \in Sockets : LeaveRoomHandler(s)
    \/ \E s \in Sockets : \E p \in IdInputs(socketRooms[s]) :
          KickPlayerHandler(s, p)

SpecRooms == RoomsInit /\ [][RoomsNext]_vars

\* the players of the other rooms who are no players of the room stored
\* under c
Outsiders(c) ==
    UNION {PlayerIds(store[b]) : b \in DOMAIN store \ {c}}
       \ PlayerIds(getRoom(store, c))

\* C37. A kick-player request of the host of one room leaves every other
\* room's stored state as it is, and the socketRooms entry of every
\* connection that is a player of another room and not of the host's room.
C37_KickIsolation ==
    [][last'.op = "kick-player" =>
          /\ \A b \in DOMAIN store \ {last'.code} :
                b \in DOMAIN store' /\ store'[b] = store[b]
          /\ \A q \in Outsiders(last'.code) : socketRooms'[q] = socketRooms[q]
      ]_vars

\* C38. Within every stored room the player ids are pairwise distinct, and
\* no connection is a player of two rooms.
C38_OneMembership ==
    /\ \A c \in DOMAIN store : DistinctIds(store[c])
    /\ \A c, b \in DOMAIN store :
          c # b => PlayerIds(store[c]) \cap PlayerIds(store[b]) = {}

----------------------------------------------------------------------------
(* Capacity *)

\* C39. Every stored room has at most settings.maxPlayers players.
C39_WithinCapacity ==
    \A c \in DOMAIN store :
       Len(store[c].players) <= store[c].settings.maxPlayers

----------------------------------------------------------------------------
(* Rotation over several rounds *)
(*                                                                         *)
(* SpecFair calls the engine on one room of 4 to MaxFairPlayers players     *)
(* whose membership never changes: startGame, then submitAnswer until the   *)
(* reveal and startNewRound, round after round. `inflight` keeps, for each  *)
(* round started, the ids of the players that got a question.               *)

MaxFairPlayers == 9
MaxFairRounds == 4

FairNames == NameList \o <<"Hal", "Ida", "Jo", "Kit", "Lu", "Mo">>

\* a lobby of n players with room for all of them
RECURSIVE FairLobby(_, _)
FairLobby(n, maxPlayers) ==
    IF n = 1
    THEN createRoom([c \in {} |-> Null], "A", 1, FairNames[1],
                    [maxPlayers |-> maxPlayers]).store
    ELSE joinRoom(FairLobby(n - 1, maxPlayers), "A", n, FairNames[n]).store

FairInit ==
    /\ \E n \in MinPlayers..MaxFairPlayers : store = FairLobby(n, n)
    /\ socketRooms = [s \in Sockets |-> NoCode]
    /\ pendingDisconnects = {}
    /\ timers = {}
    /\ connected = {}
    /\ nextSock = 1
    /\ last = [op |-> "join-room", code |-> "A", res |-> "joined", by |-> 0,
               phase |-> "lobby",
               joins |-> [c \in Codes |-> [n |-> 0, removals |-> FALSE]]]
    /\ budget = [sockets |-> MaxSockets, maxPlayers |-> MaxMaxPlayers,
                 rounds |-> MaxRound, shuffles |-> ShuffleBound,
                 departures |-> 0, irregular |-> 0]
    /\ inflight = <<>>

\* the ids of the players of a room that hold a question
Holders(room) == {room.players[i].id : i \in Assigned(room)}

FairShuffles == {Rotation(k, GroupSize) : k \in 0..(ShuffleBound - 1)}

FairStartGame(sh) ==
    /\ LET result == startGame(store, "A", sh)
       IN /\ result.ret # Null
          /\ store' = result.store
          /\ inflight' = Append(inflight, Holders(result.ret))
    /\ UNCHANGED <<socketRooms, pendingDisconnects, timers, connected, nextSock,
                   last, budget>>

FairSubmitAnswer(p) ==
    /\ LET result == submitAnswer(store, "A", p, <<"h", "i">>)
       IN /\ result.success
          /\ store' = result.store
    /\ UNCHANGED <<socketRooms, pendingDisconnects, timers, connected, nextSock,
                   last, budget, inflight>>

FairStartNewRound(sh) ==
    /\ Len(inflight) < MaxFairRounds
    /\ LET result == startNewRound(store, "A", sh)
       IN /\ result.ret # Null
          /\ store' = result.store
          /\ inflight' = Append(inflight, Holders(result.ret))
    /\ UNCHANGED <<socketRooms, pendingDisconnects, timers, connected, nextSock,
                   last, budget>>

FairNext ==
    \/ \E sh \in FairShuffles : FairStartGame(sh)
    \/ \E p \in 1..MaxFairPlayers : FairSubmitAnswer(p)
    \/ \E sh \in FairShuffles : FairStartNewRound(sh)

SpecFair == FairInit /\ [][FairNext]_vars

\* C40. With n players that stay (4 <= n) and no resetToLobby, every player
\* holds a question in at least one of any ceil(n / 4) rounds started in a
\* row.
C40_RotationFairness ==
    LET n == Len(store["A"].players)
        w == CohortCount(n)
    IN \A k \in 1..(Len(inflight) - w + 1) :
          \A p \in PlayerIds(store["A"]) :
             \E j \in k..(k + w - 1) : p \in inflight[j]

\* four rounds of a room of nine: the ninth player held a question in the
\* third round and in no other
C40_Witness ==
    /\ Len(store["A"].players) = 2 * GroupSize + 1
    /\ Len(inflight) = 4
    /\ 2 * GroupSize + 1 \in inflight[3]
    /\ 2 * GroupSize + 1 \notin inflight[1] \cup inflight[2] \cup inflight[4]

====
